---- MODULE Spec2Model ----
(***************************************************************************)
(* MU-Cortex backend: the video ranking pipeline of routers/videos.py      *)
(* (get_videos), the two fetch functions of agents/scout_agent.py and the  *)
(* in-process TTL cache of utils/cache.py.                                 *)
(*                                                                         *)
(* Representation.                                                         *)
(*  - A Python dict with fixed keys is a record; CACHE, a dict whose keys  *)
(*    come and go, is a function whose DOMAIN is the set of present keys.  *)
(*  - A text (title, description, topic) is a sequence of one-character    *)
(*    strings, so that lower() and the `in` containment test are computed. *)
(*  - A URL is the sequence of its pieces around the marker "v=".          *)
(*  - time.time() is the integer clock `now`, in seconds.                  *)
(*  - relevance_score (0.0, 0.5, 1.0) is held in tenths (0, 5, 10).        *)
(*  - int(x * 0.3), int(x * 1.25) and int(x * (1 + r)) are computed on     *)
(*    integers: 1.25, 1.5 and 2.0 are exact doubles, and for 0 <= x < 2^53 *)
(*    the double product x * 0.3 truncates to (3 * x) \div 10.             *)
(*  - The "channel" (channel title) field of a candidate is carried        *)
(*    through the pipeline untouched and is left out; a request runs       *)
(*    within one value of the clock.                                       *)
(*  - A Python list stored as a value of the cache is the record with the  *)
(*    single field `items`; every other record is a dict.                  *)
(*  - get_videos is a plain `def` endpoint, which the server runs in a pool *)
(*    of worker threads: the calls of get_cache and set_cache of two       *)
(*    requests interleave at the reads and writes of the dict CACHE, each  *)
(*    of which is atomic.                                                  *)
(*  - The SHA256 digest of a text is the record [sha256_of |-> text]: two   *)
(*    digests are equal exactly when the texts are.                        *)
(*  - The text of appeared_in is the sequence of its words; a confidence   *)
(*    is held in hundredths.                                               *)
(*  - A double x that stands for a number of hundredths is the pair <<c, D>>*)
(*    with x = c/100 + D/(25 * 2^60): c is the decimal meant and D the      *)
(*    rounding error of the binary representation, in units that make it   *)
(*    an integer. Sums are rounded to the nearest double, ties to even, as *)
(*    IEEE 754 does; all values are below 16.                              *)
(*  - An exception that leaves a call is the field `raised` of the record  *)
(*    of the call ("" when the call returned).                             *)
(***************************************************************************)
EXTENDS Integers, Sequences, FiniteSets, TLC

(***************************************************************************)
(* Program constants                                                       *)
(***************************************************************************)
TTL_SECONDS == 604800

MAX_WHITELIST_PER_CHANNEL == 3

GLOBAL_MAX_RESULTS == 17
\* limit: int = 10
DEFAULT_LIMIT == 10

(***************************************************************************)
(* Bounds of the model                                                     *)
(***************************************************************************)
\* largest viewCount of a hit in the single-candidate answers
MaxViews == 14

\* largest viewCount of a hit in the multi-candidate answers
MaxDupViews == 2

\* largest `limit` query parameter
MaxLimit == 2

\* the clock takes the values p * TTL_SECONDS + s, p <= MaxPeriods, s <= MaxSecs
MaxPeriods == 1

MaxSecs == 2
\* runs of ingest_questions
MaxRuns == 2
\* rows of the question_predictions table
MaxRows == 3
MaxBlocks == 2
MaxUrlLen == 3

(***************************************************************************)
(* Texts                                                                   *)
(***************************************************************************)
LowerChar(c) ==
    CASE c = "O" -> "o"
      [] c = "S" -> "s"
      [] c = "M" -> "m"
      [] OTHER -> c

\* str.lower()
Lower(s) == [i \in 1..Len(s) |-> LowerChar(s[i])]

\* the Python test `sub in s` on strings
Contains(sub, s) ==
    \E i \in 0..(Len(s) - Len(sub)) :
        \A j \in 1..Len(sub) : s[i + j] = sub[j]

Topics == { <<"o", "s">> }

Titles == { <<"O", "S">>, <<"m">> }

Descriptions == { <<"o", "s">>, <<>> }

(***************************************************************************)
(* The external collaborators: the channel_whitelist table and the video   *)
(* search source.                                                          *)
(***************************************************************************)
ChannelIds == {"UC1", "UC2", "UC3"}

VideoIds == {"a", "b"}

\* contents of the channel_whitelist table
WhitelistTables ==
    { << [channel_id |-> "UC1", status |-> "active"],
         [channel_id |-> "UC2", status |-> "active"] >>,
      << [channel_id |-> "UC1", status |-> "active"],
         [channel_id |-> "UC2", status |-> "inactive"] >> }

\* An answer of the search source: the items per scope (byChannel, global) and
\* the scopes whose HTTP request fails (failing).

\* one hit of the search source, joined with its statistics
Hit(vid, ch, t, d, views, comments) ==
    [videoId |-> vid, channelId |-> ch, title |-> t, description |-> d,
     viewCount |-> views, commentCount |-> comments]

SeqsUpTo1(S) == { <<>> } \cup { <<x>> : x \in S }

\* multi-candidate answers: every scope answers with at most one hit, the
\* same video id may be returned by several scopes with different statistics;
\* the hit of channel "UC1", the first of the list, is video "a"
DupHits(ch) ==
    { Hit(vid, ch, <<"O", "S">>, <<>>, v, 0) :
        vid \in VideoIds, v \in 0..MaxDupViews }

DupSources ==
    { [byChannel |-> [c \in ChannelIds |->
                         IF c = "UC1" THEN a1 ELSE IF c = "UC2" THEN a2 ELSE <<>>],
       global |-> g,
       failing |-> {}] :
        a1 \in SeqsUpTo1({ h \in DupHits("UC1") : h.videoId = "a" }),
        a2 \in SeqsUpTo1(DupHits("UC2")),
        g \in SeqsUpTo1(DupHits("UC2") \cup DupHits("UC3")) }

\* single-candidate answers: one hit, of channel "UC1" through its channel
\* scope or of channel "UC2" through the global scope
OneHitSources(channelHits, globalHits) ==
    { [byChannel |-> [c \in ChannelIds |-> IF c = "UC1" THEN <<h>> ELSE <<>>],
       global |-> <<>>,
       failing |-> {}] : h \in channelHits }
    \cup
    { [byChannel |-> [c \in ChannelIds |-> <<>>],
       global |-> <<h>>,
       failing |-> {}] : h \in globalHits }

\* the whole range of statistics and texts
SingleHits(ch) ==
    { Hit("a", ch, t, d, v, c) :
        t \in Titles, d \in Descriptions, v \in 0..MaxViews, c \in 0..1 }

SingleSources == OneHitSources(SingleHits("UC1"), SingleHits("UC2"))

Sources == DupSources \cup SingleSources

\* The worked example of the ranking: channels "UC1" and "UC2" are both on the
\* whitelist and answer with three hits each, of engagement 100, 50, 10 and
\* 80, 40, 5; the global scope answers with one hit of channel "UC3", of
\* engagement 95 and a title that holds the topic, whose video id is the id of
\* the hit of engagement 80. The texts of the six whitelisted hits range over
\* every title and description.
ExampleBases == <<100, 50, 10, 80, 40, 5>>

ExampleIds == <<"v1", "v2", "v3", "v4", "v5", "v6">>

ExampleWhitelist ==
    << [channel_id |-> "UC1", status |-> "active"],
       [channel_id |-> "UC2", status |-> "active"] >>

ExampleHit(n, ch, texts) ==
    Hit(ExampleIds[n], ch, texts[n][1], texts[n][2], ExampleBases[n], 0)

ExampleSources ==
    { [byChannel |-> [c \in ChannelIds |->
                         IF c = "UC1"
                         THEN [n \in 1..3 |-> ExampleHit(n, "UC1", texts)]
                         ELSE IF c = "UC2"
                         THEN [n \in 1..3 |-> ExampleHit(n + 3, "UC2", texts)]
                         ELSE <<>>],
       global |-> << Hit(ExampleIds[4], "UC3", <<"O", "S">>, d, 95, 0) >>,
       failing |-> {}] :
        texts \in [1..6 -> Titles \X Descriptions], d \in Descriptions }

\* The texts of the relevance scorer: a topic that may be empty, titles and
\* descriptions that are empty, hold the topic in either case and at either
\* end, or hold only a part of it; a hit may come without a description.
TextTopics == { <<"o", "s">>, <<>> }

TextTitles == { <<>>, <<"O", "s">>, <<"m", "O", "S">>, <<"o">>, <<"s", "o">> }

TextDescriptions == { <<>>, <<"o", "S", "m">>, <<"m">> }

WithoutDescription(hit) == [f \in DOMAIN hit \ {"description"} |-> hit[f]]

TextHits(ch) ==
    LET hits == { Hit("a", ch, t, d, MaxViews, 0) :
                    t \in TextTitles, d \in TextDescriptions }
    IN  hits \cup { WithoutDescription(h) : h \in hits }

TextSources == OneHitSources(TextHits("UC1"), TextHits("UC2"))

\* Answers with failing requests: channels "UC1" and "UC2" and the global
\* scope hold one hit each, of three videos, and any of the three requests may
\* fail.
FaultScopes == {"UC1", "UC2", "global"}

FaultSources ==
    { [byChannel |-> [c \in ChannelIds |->
                         IF c = "UC1"
                         THEN << Hit("a", "UC1", <<"O", "S">>, <<>>, v1, 0) >>
                         ELSE IF c = "UC2"
                         THEN << Hit("b", "UC2", <<"m">>, <<>>, v2, 0) >>
                         ELSE <<>>],
       global |-> << Hit("c", "UC3", <<"O", "S">>, <<>>, MaxDupViews, 0) >>,
       failing |-> failing] :
        v1 \in 0..MaxDupViews, v2 \in 0..MaxDupViews,
        failing \in SUBSET FaultScopes }

\* A whitelisted channel that answers with a hit off the topic, next to a
\* global hit of another channel, of any relevance; both of any engagement.
RescueSources ==
    { [byChannel |-> [c \in ChannelIds |->
                         IF c = "UC1"
                         THEN << Hit("a", "UC1", <<"m">>, <<>>, b1, 0) >>
                         ELSE <<>>],
       global |-> << Hit("b", "UC3", text[1], text[2], b2, 0) >>,
       failing |-> {}] :
        b1 \in 0..MaxViews, b2 \in 0..MaxViews,
        text \in { << <<"O", "S">>, <<>> >>, << <<"m">>, <<"o", "s">> >>,
                   << <<"m">>, <<>> >> } }

\* Malformed answers: one hit that lacks at most one of its fields.
HitFields == {"videoId", "channelId", "title", "description",
              "viewCount", "commentCount"}

Without(hit, fields) == [f \in DOMAIN hit \ fields |-> hit[f]]

MalformedHits(ch) ==
    { Without(Hit("a", ch, t, d, v, 1), fields) :
        t \in Titles, d \in Descriptions, v \in 0..MaxDupViews,
        fields \in { {} } \cup { {f} : f \in HitFields } }

MalformedSources == OneHitSources(MalformedHits("UC1"), MalformedHits("UC3"))

(***************************************************************************)
(* State                                                                   *)
(***************************************************************************)
VARIABLES
    source,             \* what the video search source answers, per scope
    channel_whitelist,  \* rows of the channel_whitelist table
    CACHE,              \* utils/cache.py CACHE: key -> {value, expires_at}
    now,                \* time.time()
    lastSetAt,          \* history: key -> time of the latest set_cache on it
    lastOp,             \* the latest call: operation, arguments, time, return
    run,                \* history: the stages of the latest fetch+rank run
    threads,            \* the cache calls in progress in the worker threads
    questions_table,    \* rows of the questions table
    question_appearances, \* rows of the question_appearances table
    ingest,             \* history: the runs of ingest_questions made so far
    question_predictions, \* rows of the question_predictions table
    study_plan,         \* the latest call of get_survival_study_plan
    parsed              \* the latest call of QuestionParser.parse_pyq_text

\* the state of the video service
cache_vars == <<source, channel_whitelist, CACHE, now, lastSetAt, lastOp, run, threads>>

\* the state of the question (PYQ) programs
pyq_vars == <<questions_table, question_appearances, ingest,
              question_predictions, study_plan, parsed>>

vars == <<source, channel_whitelist, CACHE, now, lastSetAt, lastOp, run, threads,
          questions_table, question_appearances, ingest,
          question_predictions, study_plan, parsed>>

\* get_survival_study_plan has not been called
NoPlan ==
    [status |-> 0, hours_available |-> 0, rows |-> <<>>, questions |-> <<>>,
     total_hours |-> <<0, 0>>, estimated_hours |-> 0]

\* parse_pyq_text has not been called
NotParsed ==
    [called |-> FALSE, text |-> <<>>, exam_info |-> <<>>, blocks |-> <<>>,
     responses |-> <<>>, calls |-> 0, raised |-> "", ret |-> <<>>]

\* the question programs have not run
PyqIdle ==
    /\ question_predictions = <<>>
    /\ study_plan = NoPlan
    /\ parsed = NotParsed
    /\ questions_table = <<>>
    /\ question_appearances = <<>>
    /\ ingest = [runs |-> 0, questions |-> <<>>, rejected |-> FALSE,
                 first_questions_table |-> <<>>,
                 first_question_appearances |-> <<>>]

(***************************************************************************)
(* utils/cache.py                                                          *)
(***************************************************************************)
\* Python None, and a returned value v, as a sequence of length 0 or 1
None == <<>>

Some(v) == <<v>>

\* the exception that leaves get_cache(key) at time t, "" when it returns:
\* data["expires_at"] and data["value"] are read by direct indexing
get_cache_raises(cache, key, t) ==
    IF key \notin DOMAIN cache
    THEN ""
    ELSE IF "expires_at" \notin DOMAIN cache[key]
         THEN "KeyError"
         ELSE IF t <= cache[key].expires_at /\ "value" \notin DOMAIN cache[key]
              THEN "KeyError"
              ELSE ""

\* get_cache that sweeps every expired entry on a lookup that misses
get_cache_sweeping(cache, key, t) ==
    IF key \notin DOMAIN cache
    THEN [ret |-> None,
          cache |-> [k \in { j \in DOMAIN cache : t <= cache[j].expires_at } |->
                        cache[k]]]
    ELSE IF t > cache[key].expires_at
         THEN [ret |-> None,
               cache |-> [k \in { j \in DOMAIN cache : t <= cache[j].expires_at } |->
                             cache[k]]]
         ELSE [ret |-> Some(cache[key].value), cache |-> cache]

\* get_cache with an entry that expires at expires_at already
get_cache_strict(cache, key, t) ==
    IF key \notin DOMAIN cache
    THEN [ret |-> None, cache |-> cache]
    ELSE IF t >= cache[key].expires_at
         THEN [ret |-> None,
               cache |-> [k \in DOMAIN cache \ {key} |-> cache[k]]]
         ELSE [ret |-> Some(cache[key].value), cache |-> cache]

\* get_cache with the expiry test one second late
get_cache_late(cache, key, t) ==
    IF key \notin DOMAIN cache
    THEN [ret |-> None, cache |-> cache]
    ELSE IF t > cache[key].expires_at + 1
         THEN [ret |-> None,
               cache |-> [k \in DOMAIN cache \ {key} |-> cache[k]]]
         ELSE [ret |-> Some(cache[key].value), cache |-> cache]

\* get_cache that renews the entry it returns
get_cache_sliding(cache, key, t) ==
    IF key \notin DOMAIN cache
    THEN [ret |-> None, cache |-> cache]
    ELSE IF t > cache[key].expires_at
         THEN [ret |-> None,
               cache |-> [k \in DOMAIN cache \ {key} |-> cache[k]]]
         ELSE [ret |-> Some(cache[key].value),
               cache |-> [cache EXCEPT ![key].expires_at = t + TTL_SECONDS]]

\* get_cache(key) at time t: the value returned and the cache it leaves
get_cache(cache, key, t) ==
    IF key \notin DOMAIN cache
    THEN [ret |-> None, cache |-> cache]
    ELSE IF t > cache[key].expires_at
         THEN [ret |-> None,
               cache |-> [k \in DOMAIN cache \ {key} |-> cache[k]]]
         ELSE [ret |-> Some(cache[key].value), cache |-> cache]

\* set_cache that leaves the expiry of an entry it replaces as it was
set_cache_no_restart(cache, key, value, t) ==
    [k \in DOMAIN cache \cup {key} |->
        IF k = key
        THEN [value |-> value,
              expires_at |-> IF key \in DOMAIN cache
                             THEN cache[key].expires_at
                             ELSE t + TTL_SECONDS]
        ELSE cache[k]]

\* set_cache(key, value) at time t: the cache it leaves
set_cache(cache, key, value, t) ==
    [k \in DOMAIN cache \cup {key} |->
        IF k = key
        THEN [value |-> value, expires_at |-> t + TTL_SECONDS]
        ELSE cache[k]]

(***************************************************************************)
(* agents/scout_agent.py                                                   *)
(***************************************************************************)
Min(a, b) == IF a <= b THEN a ELSE b

\* the search API returns at most maxResults items
Truncate(s, n) == SubSeq(s, 1, Min(Len(s), n))

YoutubeUrl(vid) == <<"https://www.youtube.com/watch?", "v=", vid>>

\* the candidate dict built from one search item and its statistics
Candidate(item) ==
    LET views    == IF "viewCount" \in DOMAIN item THEN item.viewCount ELSE 0
        comments == IF "commentCount" \in DOMAIN item THEN item.commentCount ELSE 0
    IN  [title |-> item.title,
         description |-> IF "description" \in DOMAIN item
                         THEN item.description ELSE <<>>,
         channel_id |-> item.channelId,
         youtube_url |-> YoutubeUrl(item.videoId),
         views |-> views,
         comments |-> comments,
         engagement_score |-> views + comments]

\* item["id"]["videoId"], item["snippet"]["title"] and
\* item["snippet"]["channelId"] raise KeyError on an item without the field
ItemRaises(item) == {"videoId", "title", "channelId"} \ DOMAIN item # {}

\* the exception that leaves fetch_videos_from_channel, "" when it returns
channel_fetch_raises(src, channel_id, max_results) ==
    LET items == Truncate(src.byChannel[channel_id], max_results)
    IN  IF channel_id \in src.failing
        THEN "HTTPError"
        ELSE IF \E i \in 1..Len(items) : ItemRaises(items[i])
             THEN "KeyError"
             ELSE ""

\* the exception that leaves fetch_videos_from_global_search, "" when it returns
global_fetch_raises(src, max_results, exclude_channel_ids) ==
    LET items == Truncate(src.global, max_results)
    IN  IF "global" \in src.failing
        THEN "HTTPError"
        ELSE IF \E i \in 1..Len(items) :
                    \/ {"videoId", "channelId"} \ DOMAIN items[i] # {}
                    \/ /\ items[i].channelId \notin exclude_channel_ids
                       /\ ItemRaises(items[i])
             THEN "KeyError"
             ELSE ""

fetch_videos_from_channel(src, channel_id, max_results) ==
    LET items == Truncate(src.byChannel[channel_id], max_results)
    IN  [i \in 1..Len(items) |-> Candidate(items[i])]

\* the global search without the skip of the excluded channels
fetch_videos_from_global_search_unfiltered(src, max_results, exclude_channel_ids) ==
    LET items == Truncate(src.global, max_results)
    IN  [i \in 1..Len(items) |-> Candidate(items[i])]

fetch_videos_from_global_search(src, max_results, exclude_channel_ids) ==
    LET items == Truncate(src.global, max_results)
        kept  == SelectSeq(items, LAMBDA it : it.channelId \notin exclude_channel_ids)
    IN  [i \in 1..Len(kept) |-> Candidate(kept[i])]

(***************************************************************************)
(* routers/videos.py                                                       *)
(***************************************************************************)
cache_key(topic_id) == <<"videos:">> \o topic_id

\* the index of the last marker "v=" in the URL, 0 when there is none
LastMarker(url) ==
    IF \E i \in 1..Len(url) : url[i] = "v="
    THEN CHOOSE i \in 1..Len(url) :
            /\ url[i] = "v="
            /\ \A j \in (i + 1)..Len(url) : url[j] # "v="
    ELSE 0

\* the text after the first marker instead of the last one
extract_video_id_first(youtube_url) ==
    IF LastMarker(youtube_url) = 0
    THEN youtube_url
    ELSE SubSeq(youtube_url,
                1 + CHOOSE i \in 1..Len(youtube_url) :
                        /\ youtube_url[i] = "v="
                        /\ \A j \in 1..(i - 1) : youtube_url[j] # "v=",
                Len(youtube_url))

\* youtube_url.split("v=")[-1] if "v=" in youtube_url else youtube_url
extract_video_id(youtube_url) ==
    IF LastMarker(youtube_url) = 0
    THEN youtube_url
    ELSE SubSeq(youtube_url, LastMarker(youtube_url) + 1, Len(youtube_url))

\* step 2 without the status filter
ActiveChannelsAnyStatus(table) == table

\* step 2: the rows with status "active", in table order
ActiveChannels(table) == SelectSeq(table, LAMBDA row : row.status = "active")

WhitelistedChannelIds(channels) ==
    { channels[i].channel_id : i \in 1..Len(channels) }

\* step 3: the hits of the first n channels, concatenated in that order
RECURSIVE WhitelistedVideos(_, _, _)
WhitelistedVideos(src, channels, n) ==
    IF n = 0
    THEN <<>>
    ELSE WhitelistedVideos(src, channels, n - 1)
         \o fetch_videos_from_channel(src, channels[n].channel_id,
                                      MAX_WHITELIST_PER_CHANNEL)

\* step 4: global_videos
GlobalVideos(src, channels) ==
    fetch_videos_from_global_search(src, GLOBAL_MAX_RESULTS,
                                    WhitelistedChannelIds(channels))

\* steps 3 and 4: all_videos
AllVideos(src, channels) ==
    WhitelistedVideos(src, channels, Len(channels)) \o GlobalVideos(src, channels)

\* steps 3 and 4: the exception of the first fetch that raises, "" when every
\* fetch returns; get_videos catches nothing
FetchRaises(src, channels) ==
    LET failed == { n \in 1..Len(channels) :
                      channel_fetch_raises(src, channels[n].channel_id,
                                           MAX_WHITELIST_PER_CHANNEL) # "" }
    IN  IF failed # {}
        THEN channel_fetch_raises(src,
                 channels[CHOOSE n \in failed : \A m \in failed : n <= m].channel_id,
                 MAX_WHITELIST_PER_CHANNEL)
        ELSE global_fetch_raises(src, GLOBAL_MAX_RESULTS,
                                 WhitelistedChannelIds(channels))

\* steps 3 and 4 with every channel asked twice
FetchCallsRetrying(topic_id, channels) ==
    [n \in 1..(2 * Len(channels) + 1) |->
        IF n <= 2 * Len(channels)
        THEN [fn |-> "fetch_videos_from_channel",
              query |-> topic_id,
              channel_id |-> channels[(n + 1) \div 2].channel_id,
              max_results |-> MAX_WHITELIST_PER_CHANNEL,
              exclude_channel_ids |-> {}]
        ELSE [fn |-> "fetch_videos_from_global_search",
              query |-> topic_id,
              channel_id |-> "",
              max_results |-> GLOBAL_MAX_RESULTS,
              exclude_channel_ids |-> WhitelistedChannelIds(channels)]]

\* steps 3 and 4: the source calls get_videos makes when none raises, in the
\* order it makes them, each with its keyword arguments (channel_id is "" and
\* exclude_channel_ids {} where the call has no such argument)
FetchCalls(topic_id, channels) ==
    [n \in 1..(Len(channels) + 1) |->
        IF n <= Len(channels)
        THEN [fn |-> "fetch_videos_from_channel",
              query |-> topic_id,
              channel_id |-> channels[n].channel_id,
              max_results |-> MAX_WHITELIST_PER_CHANNEL,
              exclude_channel_ids |-> {}]
        ELSE [fn |-> "fetch_videos_from_global_search",
              query |-> topic_id,
              channel_id |-> "",
              max_results |-> GLOBAL_MAX_RESULTS,
              exclude_channel_ids |-> WhitelistedChannelIds(channels)]]

\* steps 3 and 4: the source calls made up to and including the first one that
\* raises; all of them when none does
FetchesIssued(src, topic_id, channels) ==
    LET failed == { n \in 1..Len(channels) :
                      channel_fetch_raises(src, channels[n].channel_id,
                                           MAX_WHITELIST_PER_CHANNEL) # "" }
    IN  IF failed # {}
        THEN SubSeq(FetchCalls(topic_id, channels), 1,
                    CHOOSE n \in failed : \A m \in failed : n <= m)
        ELSE FetchCalls(topic_id, channels)

\* the loop body of step 5 with `>=`: of equal scores the last one is kept
DedupStepKeepsLast(video_map, video) ==
    LET vid_id == extract_video_id(video.youtube_url)
    IN  IF \A i \in 1..Len(video_map) : video_map[i].key # vid_id
        THEN Append(video_map, [key |-> vid_id, video |-> video])
        ELSE [i \in 1..Len(video_map) |->
                IF /\ video_map[i].key = vid_id
                   /\ video.engagement_score >= video_map[i].video.engagement_score
                THEN [key |-> vid_id, video |-> video]
                ELSE video_map[i]]

\* step 5, the loop body: video_map is a dict, held as the sequence of its
\* (key, value) pairs in insertion order; assigning to a key that is present
\* leaves its position unchanged
DedupStep(video_map, video) ==
    LET vid_id == extract_video_id(video.youtube_url)
    IN  IF \A i \in 1..Len(video_map) : video_map[i].key # vid_id
        THEN Append(video_map, [key |-> vid_id, video |-> video])
        ELSE [i \in 1..Len(video_map) |->
                IF /\ video_map[i].key = vid_id
                   /\ video.engagement_score > video_map[i].video.engagement_score
                THEN [key |-> vid_id, video |-> video]
                ELSE video_map[i]]

RECURSIVE VideoMap(_, _)
VideoMap(all_videos, n) ==
    IF n = 0
    THEN <<>>
    ELSE DedupStep(VideoMap(all_videos, n - 1), all_videos[n])

\* list(video_map.values())
Deduplicate(all_videos) ==
    LET video_map == VideoMap(all_videos, Len(all_videos))
    IN  [i \in 1..Len(video_map) |-> video_map[i].video]

\* step 6 with the two matches added up
RelevanceScoreAdditive(topic_id, video) ==
    LET topic_lower == Lower(topic_id)
    IN  (IF video.title # <<>> /\ Contains(topic_lower, Lower(video.title))
         THEN 10 ELSE 0)
        + (IF /\ video.description # <<>>
              /\ Contains(topic_lower, Lower(video.description))
           THEN 5 ELSE 0)

\* step 6: relevance_score of one video, in tenths
RelevanceScore(topic_id, video) ==
    LET topic_lower == Lower(topic_id)
    IN  IF video.title # <<>> /\ Contains(topic_lower, Lower(video.title))
        THEN 10
        ELSE IF /\ video.description # <<>>
                /\ Contains(topic_lower, Lower(video.description))
             THEN 5
             ELSE 0

\* video["relevance_score"] = relevance_score
AttachRelevance(topic_id, video) ==
    [title |-> video.title,
     description |-> video.description,
     channel_id |-> video.channel_id,
     youtube_url |-> video.youtube_url,
     views |-> video.views,
     comments |-> video.comments,
     engagement_score |-> video.engagement_score,
     relevance_score |-> RelevanceScore(topic_id, video)]

\* step 7 without the demotion of irrelevant videos
RelevanceAdjustNoDemotion(video) ==
    IF video.relevance_score > 0
    THEN [video EXCEPT !.engagement_score =
                (video.engagement_score * (10 + video.relevance_score)) \div 10]
    ELSE video

\* step 7 with exclusion (score 0) in place of the demotion
RelevanceAdjustZeroes(video) ==
    IF video.relevance_score > 0
    THEN [video EXCEPT !.engagement_score =
                (video.engagement_score * (10 + video.relevance_score)) \div 10]
    ELSE [video EXCEPT !.engagement_score = 0]

\* step 7 with round() in place of int()
RelevanceAdjustRounded(video) ==
    IF video.relevance_score > 0
    THEN [video EXCEPT !.engagement_score =
                (video.engagement_score * (10 + video.relevance_score) + 5) \div 10]
    ELSE [video EXCEPT !.engagement_score =
                (video.engagement_score * 3 + 5) \div 10]

\* step 7 applied a second time to its own result
RelevanceAdjustTwice(video) ==
    LET once == IF video.relevance_score > 0
                THEN (video.engagement_score * (10 + video.relevance_score)) \div 10
                ELSE (video.engagement_score * 3) \div 10
    IN  IF video.relevance_score > 0
        THEN [video EXCEPT !.engagement_score =
                    (once * (10 + video.relevance_score)) \div 10]
        ELSE [video EXCEPT !.engagement_score = (once * 3) \div 10]

\* step 7: the relevance adjustment of one video
RelevanceAdjust(video) ==
    IF video.relevance_score > 0
    THEN [video EXCEPT !.engagement_score =
                (video.engagement_score * (10 + video.relevance_score)) \div 10]
    ELSE [video EXCEPT !.engagement_score = (video.engagement_score * 3) \div 10]

\* step 8 with the boost given to every video
TrustBoostAll(video, whitelisted_channel_ids) ==
    [video EXCEPT !.engagement_score = (video.engagement_score * 5) \div 4]

\* step 8 with a boost of 6.0 in place of 1.25
TrustBoostSixfold(video, whitelisted_channel_ids) ==
    IF video.channel_id \in whitelisted_channel_ids
    THEN [video EXCEPT !.engagement_score = video.engagement_score * 6]
    ELSE video

\* step 8: the whitelist priority boost of one video
TrustBoost(video, whitelisted_channel_ids) ==
    IF video.channel_id \in whitelisted_channel_ids
    THEN [video EXCEPT !.engagement_score = (video.engagement_score * 5) \div 4]
    ELSE video

\* step 9 with a sort that puts x ahead of the elements of equal score
InsertDescUnstable(sorted, x) ==
    LET ahead == Cardinality({ i \in 1..Len(sorted) :
                                 sorted[i].engagement_score > x.engagement_score })
    IN  SubSeq(sorted, 1, ahead) \o <<x>> \o SubSeq(sorted, ahead + 1, Len(sorted))

\* step 9: sorted(..., key=engagement_score, reverse=True); the sort is stable,
\* so x goes behind every element whose score is at least its own
InsertDesc(sorted, x) ==
    LET ahead == Cardinality({ i \in 1..Len(sorted) :
                                 sorted[i].engagement_score >= x.engagement_score })
    IN  SubSeq(sorted, 1, ahead) \o <<x>> \o SubSeq(sorted, ahead + 1, Len(sorted))

RECURSIVE SortedDesc(_, _)
SortedDesc(videos, n) ==
    IF n = 0
    THEN <<>>
    ELSE InsertDesc(SortedDesc(videos, n - 1), videos[n])

\* the slice [:limit]
Slice(videos, limit) ==
    IF limit >= 0
    THEN SubSeq(videos, 1, Min(Len(videos), limit))
    ELSE SubSeq(videos, 1, Len(videos) + limit)

\* step 10 left out
PopRelevanceKept(video) == video

\* step 10: video.pop("relevance_score", None)
PopRelevance(video) ==
    [title |-> video.title,
     description |-> video.description,
     channel_id |-> video.channel_id,
     youtube_url |-> video.youtube_url,
     views |-> video.views,
     comments |-> video.comments,
     engagement_score |-> video.engagement_score]

\* steps 2 to 10 of get_videos on a cache miss: every stage of the run
Pipeline(src, table, topic_id, limit) ==
    LET channels     == ActiveChannels(table)
        whitelisted  == WhitelistedChannelIds(channels)
        all_videos   == AllVideos(src, channels)
        deduplicated == Deduplicate(all_videos)
        scored       == [i \in 1..Len(deduplicated) |->
                            AttachRelevance(topic_id, deduplicated[i])]
        adjusted     == [i \in 1..Len(scored) |-> RelevanceAdjust(scored[i])]
        boosted      == [i \in 1..Len(adjusted) |->
                            TrustBoost(adjusted[i], whitelisted)]
        ranked       == Slice(SortedDesc(boosted, Len(boosted)), limit)
        videos       == [i \in 1..Len(ranked) |-> PopRelevance(ranked[i])]
    IN  [ran |-> TRUE,
         fetches |-> FetchesIssued(src, topic_id, channels),
         whitelisted_channel_ids |-> whitelisted,
         all_videos |-> all_videos,
         global_videos |-> GlobalVideos(src, channels),
         deduplicated |-> deduplicated,
         scored |-> scored,
         adjusted |-> adjusted,
         boosted |-> boosted,
         payload |-> [topic_id |-> topic_id,
                      total_channels |-> Len(channels),
                      videos_found |-> Len(videos),
                      videos |-> videos]]

\* no fetch+rank run was made by the latest call
NoRun ==
    [ran |-> FALSE,
     fetches |-> <<>>,
     whitelisted_channel_ids |-> {},
     all_videos |-> <<>>,
     global_videos |-> <<>>,
     deduplicated |-> <<>>,
     scored |-> <<>>,
     adjusted |-> <<>>,
     boosted |-> <<>>,
     payload |-> [topic_id |-> <<>>, total_channels |-> 0,
                  videos_found |-> 0, videos |-> <<>>]]

\* the dict returned by get_videos, were a hit tagged as a fresh run is
ResponseAlwaysFresh(cached, payload) ==
    [cached |-> FALSE,
     topic_id |-> payload.topic_id,
     total_channels |-> payload.total_channels,
     videos_found |-> payload.videos_found,
     videos |-> payload.videos]

\* the dict returned by get_videos
Response(cached, payload) ==
    [cached |-> cached,
     topic_id |-> payload.topic_id,
     total_channels |-> payload.total_channels,
     videos_found |-> payload.videos_found,
     videos |-> payload.videos]

\* the value is a list, not a dict
IsList(value) == DOMAIN value = {"items"}

\* `if cached:` None and the empty list are false; a payload is a dict with
\* four keys and so is true
Truthy(ret) == ret # None /\ (IsList(ret[1]) => ret[1].items # <<>>)

(***************************************************************************)
(* Inputs of the calls                                                     *)
(***************************************************************************)
Limits == 1..MaxLimit

VideoKeys == { cache_key(t) : t \in Topics }

OtherKeys == { <<"k">> }

Keys == VideoKeys \cup OtherKeys

\* the values other callers of the cache store
OtherValues ==
    { [topic_id |-> t, total_channels |-> 0,
       videos_found |-> 0, videos |-> <<>>] : t \in { <<"x">>, <<"y">> } }

\* the entries of unexpected shape that code outside utils/cache.py may leave
\* in the module-level dict CACHE or hand to set_cache: an entry without
\* expires_at, an entry without value, and entries whose value is a list
CorruptEntries ==
    { [value |-> v] : v \in OtherValues }
    \cup { [expires_at |-> TTL_SECONDS] }
    \cup { [value |-> [items |-> l], expires_at |-> TTL_SECONDS] :
             l \in { <<>>, <<"x">> } }

EmptyDict == [k \in {} |-> None]

\* what the cache held for `key` at time t
EntryStatus(cache, key, t) ==
    IF key \notin DOMAIN cache
    THEN "absent"
    ELSE IF \/ DOMAIN cache[key] # {"value", "expires_at"}
            \/ IsList(cache[key].value)
         THEN "corrupt"
         ELSE IF t > cache[key].expires_at THEN "expired" ELSE "present"

\* the record of a call: `arg` is the value given to set_cache, `raised` the
\* exception that left the call, `prior` what the cache held for the key when
\* the call was made, `repeated` tells a get_cache that directly follows a
\* get_cache on the same key
Call(op, key, limit, arg, ret, raised) ==
    [op |-> op, key |-> key, limit |-> limit, at |-> now, arg |-> arg,
     ret |-> ret, raised |-> raised,
     prior |-> EntryStatus(CACHE, key, now),
     repeated |-> (op = "get_cache" /\ lastOp.op = "get_cache" /\ lastOp.key = key)]

Threads == {"t1", "t2"}

\* a thread that is in no cache call
IdleThread ==
    [pc |-> "idle", key |-> <<>>, data |-> None, ret |-> None, raised |-> ""]

(***************************************************************************)
(* Specification                                                           *)
(***************************************************************************)
VideoInit(sources) ==
    /\ source \in sources
    /\ channel_whitelist \in WhitelistTables
    /\ CACHE = EmptyDict
    /\ now = 0
    /\ lastSetAt = EmptyDict
    /\ lastOp = [op |-> "none", key |-> <<>>, limit |-> 0, at |-> 0, arg |-> None,
                 ret |-> None, raised |-> "", prior |-> "absent",
                 repeated |-> FALSE]
    /\ run = NoRun
    /\ threads = [th \in Threads |-> IdleThread]

InitWith(sources) == VideoInit(sources) /\ PyqIdle

\* time passes
Tick(d) ==
    /\ (now + d) \div TTL_SECONDS <= MaxPeriods
    /\ (now + d) % TTL_SECONDS <= MaxSecs
    /\ now' = now + d
    /\ UNCHANGED <<source, channel_whitelist, CACHE, lastSetAt, lastOp, run, threads, pyq_vars>>

\* a call of get_cache(key)
GetCache(key) ==
    LET g == get_cache(CACHE, key, now)
    IN  /\ IF get_cache_raises(CACHE, key, now) # ""
           THEN /\ CACHE' = CACHE
                /\ lastOp' = Call("get_cache", key, 0, None, None,
                                   get_cache_raises(CACHE, key, now))
           ELSE /\ CACHE' = g.cache
                /\ lastOp' = Call("get_cache", key, 0, None, g.ret, "")
        /\ run' = NoRun
        /\ UNCHANGED <<source, channel_whitelist, now, lastSetAt, threads, pyq_vars>>

\* a call of set_cache(key, value)
SetCache(key, value) ==
    /\ CACHE' = set_cache(CACHE, key, value, now)
    /\ lastSetAt' = [k \in DOMAIN lastSetAt \cup {key} |->
                        IF k = key THEN now ELSE lastSetAt[k]]
    /\ lastOp' = Call("set_cache", key, 0, Some(value), None, "")
    /\ run' = NoRun
    /\ UNCHANGED <<source, channel_whitelist, now, threads, pyq_vars>>

\* a request that stores a payload before its fetches have succeeded
GetVideosEager(topic_id, limit) ==
    LET key == cache_key(topic_id)
        g   == get_cache(CACHE, key, now)
    IN  IF get_cache_raises(CACHE, key, now) # ""
        THEN /\ CACHE' = CACHE
             /\ lastOp' = Call("get_videos", key, limit, None, None,
                                get_cache_raises(CACHE, key, now))
             /\ run' = NoRun
             /\ UNCHANGED <<source, channel_whitelist, now, lastSetAt, threads, pyq_vars>>
        ELSE IF Truthy(g.ret) /\ IsList(g.ret[1])
        THEN \* {"cached": True, **cached} raises on a list
             /\ CACHE' = g.cache
             /\ lastOp' = Call("get_videos", key, limit, None, None, "TypeError")
             /\ run' = NoRun
             /\ UNCHANGED <<source, channel_whitelist, now, lastSetAt, threads, pyq_vars>>
        ELSE IF Truthy(g.ret)
        THEN /\ CACHE' = g.cache
             /\ lastOp' = Call("get_videos", key, limit, None,
                                Response(TRUE, g.ret[1]), "")
             /\ run' = NoRun
             /\ UNCHANGED <<source, channel_whitelist, now, lastSetAt, threads, pyq_vars>>
        ELSE IF FetchRaises(source, ActiveChannels(channel_whitelist)) # ""
        THEN /\ CACHE' = set_cache(g.cache, key, NoRun.payload, now)
             /\ lastSetAt' = [k \in DOMAIN lastSetAt \cup {key} |->
                                 IF k = key THEN now ELSE lastSetAt[k]]
             /\ lastOp' = Call("get_videos", key, limit, None, None,
                                FetchRaises(source, ActiveChannels(channel_whitelist)))
             /\ run' = NoRun
             /\ UNCHANGED <<source, channel_whitelist, now, threads, pyq_vars>>
        ELSE LET p == Pipeline(source, channel_whitelist, topic_id, limit)
             IN  /\ CACHE' = set_cache(g.cache, key, p.payload, now)
                 /\ lastSetAt' = [k \in DOMAIN lastSetAt \cup {key} |->
                                     IF k = key THEN now ELSE lastSetAt[k]]
                 /\ lastOp' = Call("get_videos", key, limit, None,
                                    Response(FALSE, p.payload), "")
                 /\ run' = p
                 /\ UNCHANGED <<source, channel_whitelist, now, threads, pyq_vars>>

\* a request GET /videos/?topic_id=..&limit=..
GetVideos(topic_id, limit) ==
    LET key == cache_key(topic_id)
        g   == get_cache(CACHE, key, now)
    IN  IF get_cache_raises(CACHE, key, now) # ""
        THEN /\ CACHE' = CACHE
             /\ lastOp' = Call("get_videos", key, limit, None, None,
                                get_cache_raises(CACHE, key, now))
             /\ run' = NoRun
             /\ UNCHANGED <<source, channel_whitelist, now, lastSetAt, threads, pyq_vars>>
        ELSE IF Truthy(g.ret) /\ IsList(g.ret[1])
        THEN \* {"cached": True, **cached} raises on a list
             /\ CACHE' = g.cache
             /\ lastOp' = Call("get_videos", key, limit, None, None, "TypeError")
             /\ run' = NoRun
             /\ UNCHANGED <<source, channel_whitelist, now, lastSetAt, threads, pyq_vars>>
        ELSE IF Truthy(g.ret)
        THEN /\ CACHE' = g.cache
             /\ lastOp' = Call("get_videos", key, limit, None,
                                Response(TRUE, g.ret[1]), "")
             /\ run' = NoRun
             /\ UNCHANGED <<source, channel_whitelist, now, lastSetAt, threads, pyq_vars>>
        ELSE IF FetchRaises(source, ActiveChannels(channel_whitelist)) # ""
        THEN /\ CACHE' = g.cache
             /\ lastOp' = Call("get_videos", key, limit, None, None,
                                FetchRaises(source, ActiveChannels(channel_whitelist)))
             /\ run' = [NoRun EXCEPT !.fetches =
                            FetchesIssued(source, topic_id,
                                          ActiveChannels(channel_whitelist))]
             /\ UNCHANGED <<source, channel_whitelist, now, lastSetAt, threads, pyq_vars>>
        ELSE LET p == Pipeline(source, channel_whitelist, topic_id, limit)
             IN  /\ CACHE' = set_cache(g.cache, key, p.payload, now)
                 /\ lastSetAt' = [k \in DOMAIN lastSetAt \cup {key} |->
                                     IF k = key THEN now ELSE lastSetAt[k]]
                 /\ lastOp' = Call("get_videos", key, limit, None,
                                    Response(FALSE, p.payload), "")
                 /\ run' = p
                 /\ UNCHANGED <<source, channel_whitelist, now, threads, pyq_vars>>

\* The ranking specification: every answer of the video source, requests
\* for every topic and limit, and a clock that moves past the TTL.
Init == InitWith(Sources)

Next ==
    \/ Tick(TTL_SECONDS + 1)
    \/ \E topic_id \in Topics, limit \in Limits : GetVideos(topic_id, limit)

Spec == Init /\ [][Next]_vars

\* The cache specification: a few answers of the video source, every cache
\* call on every key, and a clock that moves by a second or by the TTL.
CacheHits(ch) == { Hit("a", ch, <<"O", "S">>, <<>>, MaxViews, 0) }

CacheSources == OneHitSources(CacheHits("UC1"), CacheHits("UC2"))

CacheInit == InitWith(CacheSources)

CacheNext ==
    \/ \E d \in {1, TTL_SECONDS} : Tick(d)
    \/ \E key \in Keys : GetCache(key)
    \/ \E key \in OtherKeys, value \in OtherValues : SetCache(key, value)
    \/ \E topic_id \in Topics, limit \in Limits : GetVideos(topic_id, limit)

CacheSpec == CacheInit /\ [][CacheNext]_vars

\* The example specification: the worked example, requested with the topic
\* "os" and the default limit.
ExampleInit == InitWith(ExampleSources) /\ channel_whitelist = ExampleWhitelist

ExampleNext == \E topic_id \in Topics : GetVideos(topic_id, DEFAULT_LIMIT)

ExampleSpec == ExampleInit /\ [][ExampleNext]_vars

\* The scorer specification: one candidate with every text, requested with
\* every topic.
TextInit == InitWith(TextSources)

TextNext == \E topic_id \in TextTopics : GetVideos(topic_id, DEFAULT_LIMIT)

TextSpec == TextInit /\ [][TextNext]_vars

\* the requests of the scopes in `failing` start or stop failing
Outage(failing) ==
    /\ source' = [source EXCEPT !.failing = failing]
    /\ UNCHANGED <<channel_whitelist, CACHE, now, lastSetAt, lastOp, run, threads,
                   pyq_vars>>

\* The outage specification: requests while the requests to the video source
\* start and stop failing and the clock moves past the TTL.
OutageSources ==
    { s \in FaultSources :
        /\ s.failing = {}
        /\ s.byChannel["UC1"][1].viewCount = MaxDupViews
        /\ s.byChannel["UC2"][1].viewCount = MaxDupViews }

OutageInit == InitWith(OutageSources)

OutageNext ==
    \/ Tick(TTL_SECONDS + 1)
    \/ \E failing \in SUBSET FaultScopes : Outage(failing)
    \/ \E topic_id \in Topics, limit \in Limits : GetVideos(topic_id, limit)

OutageSpec == OutageInit /\ [][OutageNext]_vars

\* The fault specification: requests while some of the requests to the video
\* source fail.
\* The demotion specification: an irrelevant whitelisted hit against a global
\* hit, requested with every limit.
RescueNext == \E topic_id \in Topics, limit \in Limits : GetVideos(topic_id, limit)

RescueSpec == InitWith(RescueSources) /\ [][RescueNext]_vars

FaultInit == InitWith(FaultSources)

FaultNext == \E topic_id \in Topics : GetVideos(topic_id, DEFAULT_LIMIT)

FaultSpec == FaultInit /\ [][FaultNext]_vars

\* The malformed-answer specification: requests while the video source
\* answers with a hit that lacks a field.
MalformedInit == InitWith(MalformedSources)

MalformedNext == \E topic_id \in Topics : GetVideos(topic_id, DEFAULT_LIMIT)

MalformedSpec == MalformedInit /\ [][MalformedNext]_vars

\* The corruption specification: the cache starts with an entry of unexpected
\* shape under one key; lookups and requests follow.
CorruptInit ==
    /\ source \in CacheSources
    /\ channel_whitelist \in WhitelistTables
    /\ \E key \in Keys, entry \in CorruptEntries : CACHE = [k \in {key} |-> entry]
    /\ now = 0
    /\ lastSetAt = EmptyDict
    /\ lastOp = [op |-> "none", key |-> <<>>, limit |-> 0, at |-> 0, arg |-> None,
                 ret |-> None, raised |-> "", prior |-> "absent",
                 repeated |-> FALSE]
    /\ run = NoRun
    /\ threads = [th \in Threads |-> IdleThread]
    /\ PyqIdle

CorruptNext ==
    \/ Tick(TTL_SECONDS + 1)
    \/ \E key \in Keys : GetCache(key)
    \/ \E topic_id \in Topics, limit \in Limits : GetVideos(topic_id, limit)

CorruptSpec == CorruptInit /\ [][CorruptNext]_vars

\* The steps of get_cache(key) in a worker thread.
\* data = CACHE.get(key)
GetRead(th, key) ==
    /\ threads[th].pc = "idle"
    /\ threads' = [threads EXCEPT ![th] =
                       [pc |-> "check", key |-> key,
                        data |-> IF key \in DOMAIN CACHE
                                 THEN Some(CACHE[key]) ELSE None,
                        ret |-> None, raised |-> ""]]
    /\ UNCHANGED <<source, channel_whitelist, CACHE, now, lastSetAt, lastOp, run, pyq_vars>>

\* if not data: return None; if time.time() > data["expires_at"]: ...;
\* return data["value"]
GetCheck(th) ==
    /\ threads[th].pc = "check"
    /\ threads' = [threads EXCEPT ![th] =
                       IF threads[th].data = None
                       THEN [@ EXCEPT !.pc = "idle", !.ret = None]
                       ELSE IF now > threads[th].data[1].expires_at
                            THEN [@ EXCEPT !.pc = "del"]
                            ELSE [@ EXCEPT !.pc = "idle",
                                           !.ret = Some(threads[th].data[1].value)]]
    /\ UNCHANGED <<source, channel_whitelist, CACHE, now, lastSetAt, lastOp, run, pyq_vars>>

\* del CACHE[key]; return None
GetDel(th) ==
    /\ threads[th].pc = "del"
    /\ IF threads[th].key \in DOMAIN CACHE
       THEN /\ CACHE' = [k \in DOMAIN CACHE \ {threads[th].key} |-> CACHE[k]]
            /\ threads' = [threads EXCEPT ![th].pc = "idle", ![th].ret = None]
       ELSE /\ CACHE' = CACHE
            /\ threads' = [threads EXCEPT ![th].pc = "idle",
                                          ![th].raised = "KeyError"]
    /\ UNCHANGED <<source, channel_whitelist, now, lastSetAt, lastOp, run, pyq_vars>>

\* set_cache(key, value) in a worker thread: one store into the dict
ThreadSet(th, key, value) ==
    /\ threads[th].pc = "idle"
    /\ CACHE' = set_cache(CACHE, key, value, now)
    /\ lastSetAt' = [k \in DOMAIN lastSetAt \cup {key} |->
                        IF k = key THEN now ELSE lastSetAt[k]]
    /\ threads' = [threads EXCEPT ![th] = [IdleThread EXCEPT !.key = key]]
    /\ UNCHANGED <<source, channel_whitelist, now, lastOp, run, pyq_vars>>

\* The race specification: two worker threads call get_cache and set_cache on
\* one key while the clock moves past the TTL.
RaceInit == InitWith(CacheSources)

RaceNext ==
    \/ Tick(TTL_SECONDS + 1)
    \/ \E th \in Threads, key \in OtherKeys : GetRead(th, key)
    \/ \E th \in Threads : GetCheck(th)
    \/ \E th \in Threads : GetDel(th)
    \/ \E th \in Threads, key \in OtherKeys, value \in OtherValues :
          ThreadSet(th, key, value)

RaceSpec == RaceInit /\ [][RaceNext]_vars

(***************************************************************************)
(* pyq_pipeline/ingest_questions.py                                        *)
(***************************************************************************)
\* str.strip()
RECURSIVE Strip(_)
Strip(text) ==
    IF text = <<>>
    THEN <<>>
    ELSE IF Head(text) = " "
         THEN Strip(Tail(text))
         ELSE IF text[Len(text)] = " "
              THEN Strip(SubSeq(text, 1, Len(text) - 1))
              ELSE text

\* re.sub(r'[^\w\s]', '', text)
RemovePunctuation(text) == SelectSeq(text, LAMBDA c : c \notin {"?", "."})

\* re.sub(r'\s+', ' ', text)
RECURSIVE CollapseWhitespace(_)
CollapseWhitespace(text) ==
    IF Len(text) <= 1
    THEN text
    ELSE IF text[1] = " " /\ text[2] = " "
         THEN CollapseWhitespace(Tail(text))
         ELSE <<text[1]>> \o CollapseWhitespace(Tail(text))

normalize_text(text) ==
    IF text = <<>>
    THEN <<>>
    ELSE Strip(CollapseWhitespace(RemovePunctuation(Lower(text))))

hash_text(text) == [sha256_of |-> normalize_text(text)]

\* extract_year(appeared_in) in the year this_year
extract_year(appeared_in, this_year) ==
    LET \* the number of a word that matches \b(19|20)\d{2}\b, 0 for another
        YearOfWord(word) == CASE word = "2019" -> 2019
                              [] word = "2022" -> 2022
                              [] OTHER -> 0
        years == { YearOfWord(appeared_in[i]) : i \in 1..Len(appeared_in) } \ {0}
    IN  IF years # {}
        THEN CHOOSE x \in years : \A y \in years : y <= x
        ELSE this_year

\* the clamp of a confidence to [0, 1], in hundredths
ClampConfidence(confidence) ==
    IF confidence = None
    THEN None
    ELSE IF confidence[1] < 0
         THEN Some(0)
         ELSE IF confidence[1] > 100 THEN Some(100) ELSE confidence

\* q.get(field, default)
GetField(q, field, default) == IF field \in DOMAIN q THEN q[field] ELSE default

\* the body of the loop of ingest_questions for the question q, the i-th of
\* the list: db holds the two tables; the database turns down the insert of
\* the question when i is in rejected_questions and the insert of the
\* appearance when i is in rejected_appearances
IngestOne(db, q, i, rejected_questions, rejected_appearances, this_year) ==
    LET question_text   == Strip(GetField(q, "question_text", <<>>))
        normalized_hash == hash_text(question_text)
        existing        == SelectSeq(db.questions_table,
                               LAMBDA row : row.normalized_hash = normalized_hash)
        is_new          == existing = <<>>
        question_id     == IF is_new
                           THEN Len(db.questions_table) + 1
                           ELSE existing[1].id
        new_question    == [id |-> question_id,
                            question_text |-> question_text,
                            marks |-> GetField(q, "marks", 0),
                            normalized_hash |-> normalized_hash]
        appeared_in     == GetField(q, "appeared_in", <<>>)
        appearance      == [question_id |-> question_id,
                            appeared_in |-> appeared_in,
                            year |-> extract_year(appeared_in, this_year),
                            confidence |->
                                ClampConfidence(GetField(q, "confidence", None))]
    IN  IF question_text = <<>>
        THEN db
        ELSE IF is_new /\ i \in rejected_questions
        THEN db
        ELSE [questions_table |->
                  IF is_new
                  THEN Append(db.questions_table, new_question)
                  ELSE db.questions_table,
              question_appearances |->
                  IF i \in rejected_appearances
                  THEN db.question_appearances
                  ELSE Append(db.question_appearances, appearance)]

\* ingest_questions over the first n questions of the list
RECURSIVE ingest_questions(_, _, _, _, _, _)
ingest_questions(db, questions, n, rejected_questions, rejected_appearances, this_year) ==
    IF n = 0
    THEN db
    ELSE IngestOne(ingest_questions(db, questions, n - 1, rejected_questions,
                                    rejected_appearances, this_year),
                   questions[n], n, rejected_questions, rejected_appearances,
                   this_year)

\* the questions of the parsed files
ParsedQuestions ==
    { [question_text |-> t, marks |-> 5, appeared_in |-> a, confidence |-> c] :
        t \in { <<"O", "s", "?">>, <<" ", "o", "s">>, <<" ">> },
        a \in { <<"Dec", "2022", "2019">>, <<"May">> },
        c \in { None, Some(150) } }
    \cup { [marks |-> 5] }

QuestionLists ==
    { <<q>> : q \in ParsedQuestions }
    \cup { <<q1, q2>> : q1 \in ParsedQuestions, q2 \in ParsedQuestions }

\* a run of ingest_questions(supabase, questions, stats); the runs after the
\* first are given the list of the first
IngestRun(questions, rejected_questions, rejected_appearances, this_year) ==
    LET db == ingest_questions([questions_table |-> questions_table,
                                question_appearances |-> question_appearances],
                               questions, Len(questions), rejected_questions,
                               rejected_appearances, this_year)
    IN  /\ ingest.runs < MaxRuns
        /\ ingest.runs > 0 => questions = ingest.questions
        /\ questions_table' = db.questions_table
        /\ question_appearances' = db.question_appearances
        /\ ingest' = [runs |-> ingest.runs + 1,
                      questions |-> questions,
                      rejected |-> ( \/ ingest.rejected
                                     \/ rejected_questions # {}
                                     \/ rejected_appearances # {} ),
                      first_questions_table |->
                          IF ingest.runs = 0
                          THEN db.questions_table
                          ELSE ingest.first_questions_table,
                      first_question_appearances |->
                          IF ingest.runs = 0
                          THEN db.question_appearances
                          ELSE ingest.first_question_appearances]
        /\ UNCHANGED <<cache_vars, question_predictions, study_plan, parsed>>

\* the start of the specifications that make no request for videos: one
\* answer of the video source, one whitelist, empty tables
IdleInit ==
    /\ InitWith(CacheSources)
    /\ source.global = <<>>
    /\ channel_whitelist = ExampleWhitelist

\* The ingestion specification: runs of ingest_questions on one list of
\* questions, starting from empty tables.

IngestNext ==
    \E questions \in QuestionLists,
       rejected_questions \in SUBSET (1..2), rejected_appearances \in SUBSET (1..2),
       this_year \in { 2026, 2027 } :
        IngestRun(questions, rejected_questions, rejected_appearances, this_year)

IngestSpec == IdleInit /\ [][IngestNext]_vars

(***************************************************************************)
(* routers/analytics.py: get_survival_study_plan                           *)
(***************************************************************************)
\* 2^e modulo m
RECURSIVE Pow2Mod(_, _)
Pow2Mod(e, m) == IF e = 0 THEN 1 % m ELSE (2 * Pow2Mod(e - 1, m)) % m

\* <<c, D>> is at least the whole number of hundredths bound
AtLeast(c, D, bound) == c > bound \/ (c = bound /\ D >= 0)

\* the gap between neighbouring doubles around <<c, D>>, in units of 2^-60
UlpUnits(c, D) ==
    IF AtLeast(c, D, 800) THEN 2048
    ELSE IF AtLeast(c, D, 400) THEN 1024
    ELSE IF AtLeast(c, D, 200) THEN 512
    ELSE IF AtLeast(c, D, 100) THEN 256
    ELSE IF AtLeast(c, D, 50) THEN 128
    ELSE IF AtLeast(c, D, 25) THEN 64
    ELSE IF c >= 13 THEN 32
    ELSE IF c >= 7 THEN 16
    ELSE IF c >= 4 THEN 8
    ELSE IF c >= 2 THEN 4
    ELSE 2

\* the double nearest to the real c/100 + D/(25 * 2^60), ties to even
RoundDouble(c, D) ==
    IF c = 0 /\ D = 0
    THEN <<0, 0>>
    ELSE LET M    == 25 * UlpUnits(c, D)
             rem  == (c * Pow2Mod(58, M) + D) % M
             rem2 == (c * Pow2Mod(58, 2 * M) + D) % (2 * M)
         IN  IF 2 * rem < M \/ (2 * rem = M /\ rem2 = rem)
             THEN <<c, D - rem>>
             ELSE <<c, D + M - rem>>

\* the double of a decimal literal or query parameter of c hundredths
Double(c) == RoundDouble(c, 0)

\* a + b on doubles
AddDouble(a, b) == RoundDouble(a[1] + b[1], a[2] + b[2])

\* a > b on doubles
GreaterDouble(a, b) == a[1] > b[1] \/ (a[1] = b[1] /\ a[2] > b[2])

\* time_per_marks = {10: 0.75, 5: 0.4, 2: 0.15}
time_per_marks(marks) ==
    CASE marks = 10 -> Double(75)
      [] marks = 5 -> Double(40)
      [] marks = 2 -> Double(15)

\* .order("prediction_score", desc=True): x goes behind the rows of a score
\* at least its own
InsertByScore(sorted, x) ==
    LET ahead == Cardinality({ i \in 1..Len(sorted) :
                                 sorted[i].prediction_score >= x.prediction_score })
    IN  SubSeq(sorted, 1, ahead) \o <<x>> \o SubSeq(sorted, ahead + 1, Len(sorted))

RECURSIVE OrderByScore(_, _)
OrderByScore(rows, n) ==
    IF n = 0 THEN <<>> ELSE InsertByScore(OrderByScore(rows, n - 1), rows[n])

\* the query of the must_study rows, by prediction_score descending
MustStudyRows(table) ==
    LET rows == SelectSeq(table, LAMBDA row : row.study_priority = "must_study")
    IN  OrderByScore(rows, Len(rows))

\* the loop over resp.data, from row n on: acc holds selected_questions,
\* total_hours
RECURSIVE SelectQuestions(_, _, _, _)
SelectQuestions(rows, n, acc, hours_available) ==
    IF n > Len(rows)
    THEN acc
    ELSE IF rows[n].marks \notin {10, 5, 2}
    THEN SelectQuestions(rows, n + 1, acc, hours_available)
    ELSE LET question_hours == time_per_marks(rows[n].marks)
         IN  IF GreaterDouble(AddDouble(acc.total_hours, question_hours),
                              hours_available)
             THEN acc
             ELSE SelectQuestions(rows, n + 1,
                      [selected_questions |->
                           Append(acc.selected_questions,
                                  [question_id |-> rows[n].question_id,
                                   marks |-> rows[n].marks,
                                   prediction_score |-> rows[n].prediction_score,
                                   study_priority |-> rows[n].study_priority,
                                   estimated_hours |-> question_hours]),
                       total_hours |-> AddDouble(acc.total_hours, question_hours)],
                      hours_available)

PredictionTables ==
    UNION { [1..n -> { [marks |-> m, study_priority |-> p] :
                         m \in {10, 5, 2, 4},
                         p \in {"must_study", "good_to_know"} }] :
              n \in 1..MaxRows }

\* a request GET /study-plan/survival/{subject_id}?hours_available=..
GetSurvivalStudyPlan(hundredths) ==
    LET rows == MustStudyRows(question_predictions)
        plan == SelectQuestions(rows, 1,
                    [selected_questions |-> <<>>, total_hours |-> <<0, 0>>],
                    Double(hundredths))
    IN  /\ study_plan' =
               IF rows = <<>>
               THEN [NoPlan EXCEPT !.status = 404, !.hours_available = hundredths]
               ELSE [status |-> 200,
                     hours_available |-> hundredths,
                     rows |-> rows,
                     questions |-> plan.selected_questions,
                     total_hours |-> plan.total_hours,
                     estimated_hours |-> plan.total_hours[1]]
        /\ UNCHANGED <<cache_vars, questions_table, question_appearances, ingest,
                       question_predictions, parsed>>

\* The study plan specification: every table of predictions (not in the order
\* of the scores), requested with every number of hours, in hundredths; 600
\* is the default.
PlanInit ==
    /\ VideoInit(CacheSources)
    /\ source.global = <<>>
    /\ channel_whitelist = ExampleWhitelist
    /\ questions_table = <<>>
    /\ question_appearances = <<>>
    /\ ingest = [runs |-> 0, questions |-> <<>>, rejected |-> FALSE,
                 first_questions_table |-> <<>>,
                 first_question_appearances |-> <<>>]
    /\ \E table \in PredictionTables :
          question_predictions =
              [i \in 1..Len(table) |->
                  [question_id |-> i,
                   marks |-> table[i].marks,
                   study_priority |-> table[i].study_priority,
                   prediction_score |-> (2 * i) % 5]]
    /\ study_plan = NoPlan
    /\ parsed = NotParsed

PlanNext ==
    \E hundredths \in { 0, 15, 55, 70, 95, 120, 600 } :
        GetSurvivalStudyPlan(hundredths)

PlanSpec == PlanInit /\ [][PlanNext]_vars

(***************************************************************************)
(* routers/videos.py: extract_video_id on any URL                          *)
(***************************************************************************)
\* the URLs of at most n pieces, each the marker "v=" or other text
RECURSIVE UrlsUpTo(_)
UrlsUpTo(n) ==
    IF n = 0
    THEN { <<>> }
    ELSE UrlsUpTo(n - 1)
         \cup { Append(u, piece) : u \in UrlsUpTo(n - 1), piece \in {"v=", "a"} }

\* a candidate with this youtube_url
CandidateAt(youtube_url, views) ==
    LET video == Candidate(Hit("a", "UC3", <<"O", "S">>, <<>>, views, 0))
    IN  [field \in DOMAIN video |->
            IF field = "youtube_url" THEN youtube_url ELSE video[field]]

\* extract_video_id applied to the URLs of two candidates, and step 5 of
\* get_videos applied to the list of the two
ExtractVideoIds(first, second) ==
    /\ lastOp' = Call("extract_video_id", <<>>, 0,
                       << first.youtube_url, second.youtube_url >>,
                       << extract_video_id(first.youtube_url),
                          extract_video_id(second.youtube_url) >>, "")
    /\ run' = [NoRun EXCEPT !.all_videos = << first, second >>,
                            !.deduplicated = Deduplicate(<< first, second >>)]
    /\ UNCHANGED <<source, channel_whitelist, CACHE, now, lastSetAt, threads, pyq_vars>>

\* The id specification: every pair of URLs, with and without the marker.
UrlNext ==
    \E u1 \in UrlsUpTo(MaxUrlLen), u2 \in UrlsUpTo(MaxUrlLen) :
        ExtractVideoIds(CandidateAt(u1, 1), CandidateAt(u2, 2))

UrlSpec == IdleInit /\ [][UrlNext]_vars

(***************************************************************************)
(* ocr_fallback/parse_questions.py                                         *)
(***************************************************************************)
\* A text is a sequence of tokens.  A token is a piece of text that the regular
\* expressions of the parser treat as a unit: kind is what it matches, tag its
\* content as far as the parser reads it, len its number of characters.
\*   "Q."    a main question number matching Q\.\s*\d+ (tag: the match)
\*   "OR"    the word OR in any case
\*   "sub"   a line start matching \n\s*([a-f])\) (tag: the letter)
\*   "words" other text (tag: the keyword of infer_marks it contains, or "")
\*   "space" blanks and tabs
\*   "noise" a line of at most one character
Tok(kind, tag, len) == [kind |-> kind, tag |-> tag, len |-> len]

\* len(text)
RECURSIVE TextLen(_)
TextLen(text) ==
    IF text = <<>> THEN 0 ELSE text[1].len + TextLen(Tail(text))

\* text.strip(), of a paper text and of a response text
StripTokens(text) ==
    LET keep == { i \in 1..Len(text) : text[i].kind # "space" }
    IN  IF keep = {}
        THEN <<>>
        ELSE SubSeq(text, CHOOSE i \in keep : \A j \in keep : i <= j,
                          CHOOSE i \in keep : \A j \in keep : j <= i)

\* the lines with more than one character, joined again
clean_extracted_text(text) == SelectSeq(text, LAMBDA t : t.kind # "noise")

\* re.sub(r'[ \t]+', ' ', text): a run of blanks becomes one blank
RECURSIVE NormalizeSpaces(_)
NormalizeSpaces(text) ==
    IF text = <<>>
    THEN <<>>
    ELSE LET rest == NormalizeSpaces(SubSeq(text, 1, Len(text) - 1))
             last == text[Len(text)]
         IN  IF last.kind # "space"
             THEN Append(rest, last)
             ELSE IF Len(text) > 1 /\ text[Len(text) - 1].kind = "space"
                  THEN rest
                  ELSE Append(rest, Tok("space", "", 1))

infer_marks(text) ==
    LET keywords == { text[i].tag :
                        i \in { j \in 1..Len(text) : text[j].kind = "words" } }
    IN  IF keywords \cap {"define", "what is"} # {}
        THEN 2
        ELSE IF keywords \cap {"explain", "describe"} # {}
        THEN 10
        ELSE IF TextLen(text) < 120
        THEN 5
        ELSE 10

\* the positions of the separators of one kind
Marks(text, kind) == { i \in 1..Len(text) : text[i].kind = kind }

\* the position of the k-th separator
NthMark(text, kind, k) ==
    CHOOSE i \in Marks(text, kind) :
        Cardinality({ j \in Marks(text, kind) : j <= i }) = k

\* the text between the k-th separator and the next one, for k = 0 the text
\* before the first separator: an element of pattern.split(text)
PieceAfter(text, kind, k) ==
    SubSeq(text,
           IF k = 0 THEN 1 ELSE NthMark(text, kind, k) + 1,
           IF k < Cardinality(Marks(text, kind))
           THEN NthMark(text, kind, k + 1) - 1
           ELSE Len(text))

\* the blocks of the first j sub-questions of one OR alternative
RECURSIVE SubBlocks(_, _, _)
SubBlocks(q_number, or_part, j) ==
    IF j = 0
    THEN <<>>
    ELSE LET raw    == StripTokens(PieceAfter(or_part, "sub", j))
             letter == or_part[NthMark(or_part, "sub", j)].tag
             \* sub_parts[j].lower()
             sub    == CASE letter = "A" -> "a"
                         [] letter = "B" -> "b"
                         [] OTHER -> letter
         IN  SubBlocks(q_number, or_part, j - 1)
             \o (IF TextLen(raw) < 20
                 THEN <<>>
                 ELSE << [q_number |-> q_number,
                          sub_part |-> Some(sub),
                          raw_text |-> raw,
                          marks |-> infer_marks(raw)] >>)

\* the blocks of one OR alternative
OrPartBlocks(q_number, or_part) ==
    IF Marks(or_part, "sub") = {}
    THEN IF TextLen(StripTokens(or_part)) < 30
         THEN <<>>
         ELSE << [q_number |-> q_number,
                  sub_part |-> None,
                  raw_text |-> StripTokens(or_part),
                  marks |-> infer_marks(StripTokens(or_part))] >>
    ELSE SubBlocks(q_number, or_part, Cardinality(Marks(or_part, "sub")))

\* the blocks of the OR alternatives 0..k of the body of one main question
RECURSIVE OrBlocks(_, _, _)
OrBlocks(q_number, body, k) ==
    IF k < 0
    THEN <<>>
    ELSE OrBlocks(q_number, body, k - 1)
         \o OrPartBlocks(q_number, PieceAfter(body, "OR", k))

\* the blocks of the first n main questions
RECURSIVE MainBlocks(_, _)
MainBlocks(text, n) ==
    IF n = 0
    THEN <<>>
    ELSE MainBlocks(text, n - 1)
         \o OrBlocks(text[NthMark(text, "Q.", n)].tag,
                     PieceAfter(text, "Q.", n),
                     Cardinality(Marks(PieceAfter(text, "Q.", n), "OR")))

\* phase 1: the question blocks found without the LLM
extract_question_blocks(text) ==
    IF text = <<>>
    THEN <<>>
    ELSE MainBlocks(NormalizeSpaces(text),
                    Cardinality(Marks(NormalizeSpaces(text), "Q.")))

\* A response text of the LLM is a sequence of tokens too: the code fences
\* with and without the word json ("fence-json", "fence"), the brackets "{", "}" and "[", a member  "key": value  of a JSON
\* object ("pair", value None for null), blanks ("space") and anything else
\* ("junk").  Commas are not modelled.
JTok(kind, key, value) == [kind |-> kind, key |-> key, value |-> value]

\* the removal of a leading fence of either kind and of a trailing fence
StripFences(text) ==
    LET opened == IF text # <<>> /\ text[1].kind \in {"fence-json", "fence"}
                  THEN Tail(text)
                  ELSE text
        closed == IF opened # <<>> /\ opened[Len(opened)].kind = "fence"
                  THEN SubSeq(opened, 1, Len(opened) - 1)
                  ELSE opened
    IN  StripTokens(closed)

\* the dict of a JSON object  { members }  given from "{" to "}"; of two
\* members with one key the later one counts
ObjectOf(candidate) ==
    LET members == { i \in 1..Len(candidate) : candidate[i].kind = "pair" }
    IN  [k \in { candidate[i].key : i \in members } |->
            candidate[CHOOSE i \in members :
                        /\ candidate[i].key = k
                        /\ \A j \in members : candidate[j].key = k => j <= i].value]

\* json.loads accepts the text from "{" to "}" as one object
IsObject(candidate) ==
    /\ Len(candidate) >= 2
    /\ candidate[1].kind = "{"
    /\ candidate[Len(candidate)].kind = "}"
    /\ \A i \in 2..(Len(candidate) - 1) : candidate[i].kind \in {"pair", "space"}

\* text.find(kind), 0 when there is none; text.rfind(kind) likewise
Find(text, kind) ==
    IF Marks(text, kind) = {}
    THEN 0
    ELSE CHOOSE i \in Marks(text, kind) : \A j \in Marks(text, kind) : i <= j

RFind(text, kind) ==
    IF Marks(text, kind) = {}
    THEN 0
    ELSE CHOOSE i \in Marks(text, kind) : \A j \in Marks(text, kind) : j <= i

\* the object between the first "{" and the last "}", {} when there is none
extract_json_object(text) ==
    IF text = <<>>
    THEN EmptyDict
    ELSE IF Find(text, "{") = 0 \/ RFind(text, "}") = 0
            \/ RFind(text, "}") <= Find(text, "{")
    THEN EmptyDict
    ELSE IF IsObject(SubSeq(text, Find(text, "{"), RFind(text, "}")))
    THEN ObjectOf(SubSeq(text, Find(text, "{"), RFind(text, "}")))
    ELSE EmptyDict

\* json.loads accepts  [ inner ]  as a list of objects: the brackets of inner
\* are "{" and "}" in turn and every member lies inside an object
IsObjectList(inner) ==
    /\ \A i \in 1..Len(inner) : inner[i].kind \in {"{", "}", "pair", "space"}
    /\ Cardinality(Marks(inner, "{")) = Cardinality(Marks(inner, "}"))
    /\ \A k \in 1..Cardinality(Marks(inner, "{")) :
          /\ NthMark(inner, "{", k) < NthMark(inner, "}", k)
          /\ k > 1 => NthMark(inner, "}", k - 1) < NthMark(inner, "{", k)
    /\ \A i \in Marks(inner, "pair") :
          \E k \in 1..Cardinality(Marks(inner, "{")) :
              NthMark(inner, "{", k) < i /\ i < NthMark(inner, "}", k)

\* the list from the first "[" to the last "}", closed with a "]"; [] when
\* that is no JSON list
extract_json_array(text) ==
    IF text = <<>>
    THEN <<>>
    ELSE IF Find(text, "[") = 0
    THEN <<>>
    ELSE IF RFind(text, "}") = 0 \/ RFind(text, "}") < Find(text, "[")
    THEN <<>>
    ELSE LET inner == SubSeq(text, Find(text, "[") + 1, RFind(text, "}"))
         IN  IF IsObjectList(inner)
             THEN [k \in 1..Cardinality(Marks(inner, "{")) |->
                      ObjectOf(SubSeq(inner, NthMark(inner, "{", k),
                                             NthMark(inner, "}", k)))]
             ELSE <<>>

\* the single LLM call made when phase 1 finds no block
LegacyParse(response) ==
    IF response.raises \/ response.text = None
    THEN <<>>
    ELSE IF StripTokens(response.text[1]) = <<>>
    THEN <<>>
    ELSE extract_json_array(StripFences(StripTokens(response.text[1])))

\* norm.get(key) or default
GetOr(norm, key, default) ==
    IF key \in DOMAIN norm /\ norm[key] # None /\ norm[key][1] # <<>>
    THEN norm[key][1]
    ELSE default

\* the try block of phase 2 leaves through its except clause
NormalizeFails(response) ==
    \/ response.raises
    \/ response.text = None
    \/ StripTokens(response.text[1]) = <<>>
    \/ extract_json_object(StripFences(StripTokens(response.text[1]))) = EmptyDict

\* phase 2 with the marks of the LLM preferred to the inferred ones
NormalizeBlockTrusting(b, response, appeared_in) ==
    LET norm == IF NormalizeFails(response)
                THEN EmptyDict
                ELSE extract_json_object(
                         StripFences(StripTokens(response.text[1])))
    IN  [q_number |-> b.q_number,
         sub_part |-> b.sub_part,
         question_text |-> GetOr(norm, "question_text", b.raw_text),
         marks |-> IF "marks" \in DOMAIN norm /\ norm["marks"] # None
                   THEN norm["marks"][1]
                   ELSE b.marks,
         topic_guess |-> GetOr(norm, "topic_guess", <<>>),
         module_number |-> IF "module_number" \in DOMAIN norm
                           THEN norm["module_number"]
                           ELSE None,
         confidence |-> IF "confidence" \in DOMAIN norm
                        THEN norm["confidence"]
                        ELSE Some(60),
         appeared_in |-> appeared_in]

\* phase 2 for one block: the result appended for it (confidence in
\* hundredths; module_number and confidence None for a JSON null)
NormalizeBlock(b, response, appeared_in) ==
    LET norm == IF NormalizeFails(response)
                THEN EmptyDict
                ELSE extract_json_object(
                         StripFences(StripTokens(response.text[1])))
    IN  [q_number |-> b.q_number,
         sub_part |-> b.sub_part,
         question_text |-> GetOr(norm, "question_text", b.raw_text),
         marks |-> b.marks,
         topic_guess |-> GetOr(norm, "topic_guess", <<>>),
         module_number |-> IF "module_number" \in DOMAIN norm
                           THEN norm["module_number"]
                           ELSE None,
         confidence |-> IF "confidence" \in DOMAIN norm
                        THEN norm["confidence"]
                        ELSE Some(60),
         appeared_in |-> appeared_in]

\* phase 2 over the first n blocks: the results so far and the number of LLM
\* calls made; a block whose raw_text is empty is skipped without a call
RECURSIVE Phase2(_, _, _, _)
Phase2(blocks, n, responses, appeared_in) ==
    IF n = 0
    THEN [results |-> <<>>, calls |-> 0]
    ELSE LET before == Phase2(blocks, n - 1, responses, appeared_in)
         IN  IF StripTokens(blocks[n].raw_text) = <<>>
             THEN before
             ELSE [results |-> Append(before.results,
                                      NormalizeBlock(blocks[n],
                                                     responses[before.calls + 1],
                                                     appeared_in)),
                   calls |-> before.calls + 1]

\* QuestionParser.parse_pyq_text: the blocks of phase 1, the number of LLM
\* calls and the list returned; no exception leaves it
parse_pyq_text(text, exam_info, responses) ==
    LET blocks == extract_question_blocks(clean_extracted_text(text))
    IN  IF blocks = <<>>
        THEN [blocks |-> blocks, calls |-> 1, raised |-> "",
              ret |-> LegacyParse(responses[1])]
        ELSE [blocks |-> blocks,
              calls |-> Phase2(blocks, Len(blocks), responses, exam_info).calls,
              raised |-> "",
              ret |-> Phase2(blocks, Len(blocks), responses, exam_info).results]

\* The papers: texts without a question number, with questions too short to
\* be blocks, with OR alternatives, with sub-questions and with line noise.
Papers ==
    { <<>>,
      << Tok("words", "", 40) >>,
      << Tok("Q.", "Q.1", 3), Tok("words", "", 10) >>,
      << Tok("Q.", "Q.1", 3), Tok("space", "", 1), Tok("words", "define", 40) >>,
      << Tok("Q.", "Q.1", 3), Tok("words", "", 15), Tok("space", "", 1), Tok("words", "", 15) >>,
      << Tok("Q.", "Q.1", 3), Tok("sub", "a", 3), Tok("words", "", 10),
         Tok("sub", "B", 3), Tok("words", "describe", 25) >>,
      << Tok("Q.", "Q.1", 3), Tok("sub", "a", 3), Tok("words", "", 25),
         Tok("OR", "", 2), Tok("words", "", 29) >>,
      << Tok("Q.", "Q.1", 3), Tok("words", "explain", 40), Tok("OR", "", 2),
         Tok("space", "", 1), Tok("space", "", 1), Tok("words", "", 40), Tok("space", "", 1) >>,
      << Tok("Q.", "Q.1", 3), Tok("words", "", 40), Tok("sub", "a", 3), Tok("words", "what is", 25),
         Tok("sub", "B", 3), Tok("words", "", 130) >>,
      << Tok("noise", "", 1), Tok("Q.", "Q.1", 3), Tok("words", "", 40), Tok("noise", "", 1),
         Tok("Q.", "Q.2", 3), Tok("words", "define", 130), Tok("OR", "", 2), Tok("words", "", 130) >>,
      << Tok("Q.", "Q.1", 3), Tok("words", "", 40), Tok("OR", "", 2), Tok("words", "", 40),
         Tok("Q.", "Q.2", 3), Tok("words", "", 40), Tok("OR", "", 2), Tok("words", "", 40) >> }

\* a JSON object with these members
Object(members) == << JTok("{", "", None) >> \o members \o << JTok("}", "", None) >>

\* the members of a complete answer, with a value for marks nobody asked for
FullMembers ==
    << JTok("pair", "question_text", Some(<< Tok("words", "", 35) >>)),
       JTok("pair", "marks", Some(7)),
       JTok("pair", "topic_guess", Some(<< Tok("words", "", 8) >>)),
       JTok("pair", "module_number", Some(3)),
       JTok("pair", "confidence", Some(90)) >>

\* What self.model.generate_content does with one prompt: it raises, or
\* returns a response whose text is None or a string: blank text, text
\* without an object, broken JSON, an empty object, complete and partial
\* objects, fenced output, and lists (complete and cut off).
LLMResponses ==
    { [raises |-> TRUE, text |-> None], [raises |-> FALSE, text |-> None] }
    \cup
    { [raises |-> FALSE, text |-> Some(text)] :
        text \in
          { << JTok("space", "", None) >>,
            << JTok("junk", "", None) >>,
            << JTok("}", "", None), JTok("{", "", None) >>,
            Object(<< JTok("junk", "", None) >>),
            Object(<<>>),
            Object(FullMembers),
            << JTok("fence-json", "", None) >> \o Object(FullMembers)
                \o << JTok("space", "", None), JTok("fence", "", None) >>,
            Object(<< JTok("pair", "question_text", None),
                      JTok("pair", "topic_guess", Some(<<>>)),
                      JTok("pair", "module_number", None),
                      JTok("pair", "confidence", None) >>),
            Object(<< JTok("pair", "marks", Some(7)) >>),
            << JTok("[", "", None) >> \o Object(FullMembers)
                \o Object(FullMembers) \o << JTok("]", "", None) >>,
            << JTok("[", "", None) >> \o Object(FullMembers)
                \o << JTok("{", "", None),
                      JTok("pair", "question_text",
                           Some(<< Tok("words", "", 35) >>)) >> } }

\* the number of LLM calls parse_pyq_text makes on the text
CallsNeeded(text) ==
    IF extract_question_blocks(clean_extracted_text(text)) = <<>>
    THEN 1
    ELSE Len(extract_question_blocks(clean_extracted_text(text)))

\* one call of parse_pyq_text; responses are the outcomes of its LLM calls.
\* The parser keeps nothing between two calls, so a behaviour makes one call.
ParsePyqText(text, exam_info, responses) ==
    LET p == parse_pyq_text(text, exam_info, responses)
    IN  /\ ~parsed.called
        /\ CallsNeeded(text) <= MaxBlocks
        /\ parsed' = [called |-> TRUE, text |-> text, exam_info |-> exam_info,
                      blocks |-> p.blocks, responses |-> responses,
                      calls |-> p.calls, raised |-> p.raised, ret |-> p.ret]
        /\ UNCHANGED <<cache_vars, questions_table, question_appearances, ingest,
                       question_predictions, study_plan>>

\* The parsing specification: every paper, with every outcome of every LLM
\* call.
ParseNext ==
    \E text \in { t \in Papers : CallsNeeded(t) <= MaxBlocks },
       exam_info \in { <<>>, <<"May", "2023">> } :
        \E responses \in [1..CallsNeeded(text) -> LLMResponses] :
            ParsePyqText(text, exam_info, responses)

ParseSpec == IdleInit /\ [][ParseNext]_vars

TypeOK ==
    /\ now \in Nat
    /\ DOMAIN CACHE \subseteq Keys \cup { cache_key(t) : t \in TextTopics }
    /\ lastOp.op \in {"none", "get_cache", "set_cache", "get_videos", "extract_video_id"}

(***************************************************************************)
(* Properties                                                              *)
(***************************************************************************)
\* the latest call was a request answered by a fresh fetch+rank run
FreshRun == lastOp.op = "get_videos" /\ lastOp.raised = "" /\ run.ran

IdOf(video) == extract_video_id(video.youtube_url)

\* the positions of the candidate list that hold the external id `id`
Occurrences(all_videos, id) ==
    { i \in 1..Len(all_videos) : IdOf(all_videos[i]) = id }

\* the first of these positions that holds the greatest engagement_score
BestOccurrence(all_videos, id) ==
    CHOOSE i \in Occurrences(all_videos, id) :
        /\ \A j \in Occurrences(all_videos, id) :
              all_videos[j].engagement_score <= all_videos[i].engagement_score
        /\ \A j \in Occurrences(all_videos, id) :
              j < i =>
                all_videos[j].engagement_score < all_videos[i].engagement_score

(* C1: after deduplication the merged set holds exactly one entry per      *)
(* external id of the concatenated candidate list, and that entry is the   *)
(* first occurrence among those with the greatest engagement_score.        *)
DedupCorrect ==
    FreshRun =>
        /\ { IdOf(run.deduplicated[i]) : i \in 1..Len(run.deduplicated) }
             = { IdOf(run.all_videos[i]) : i \in 1..Len(run.all_videos) }
        /\ \A i, j \in 1..Len(run.deduplicated) :
              IdOf(run.deduplicated[i]) = IdOf(run.deduplicated[j]) => i = j
        /\ \A i \in 1..Len(run.deduplicated) :
              run.deduplicated[i]
                = run.all_videos[BestOccurrence(run.all_videos,
                                                IdOf(run.deduplicated[i]))]

\* an id fetched three times, the greatest score shared by the second and the
\* third occurrence, and the second one kept
DedupCorrectWitness ==
    /\ FreshRun
    /\ \E id \in { IdOf(run.all_videos[i]) : i \in 1..Len(run.all_videos) } :
          /\ Cardinality(Occurrences(run.all_videos, id)) = 3
          /\ BestOccurrence(run.all_videos, id) = 2
          /\ run.all_videos[3].engagement_score = run.all_videos[2].engagement_score
          /\ \E i \in 1..Len(run.deduplicated) :
                run.deduplicated[i] = run.all_videos[2]

(* C2: a candidate whose relevance_score is 0 ends the pipeline with       *)
(* engagement_score <= 1.25 * 0.3 * base_score (that is 8 * final <=       *)
(* 3 * base), whitelisted or not.                                          *)
DemotionBound ==
    FreshRun =>
        \A i \in 1..Len(run.boosted) :
            run.scored[i].relevance_score = 0 =>
                8 * run.boosted[i].engagement_score
                    <= 3 * run.deduplicated[i].engagement_score

\* an irrelevant candidate of a whitelisted channel whose demoted score was
\* raised by the boost
DemotionBoundWitness ==
    /\ FreshRun
    /\ \E i \in 1..Len(run.boosted) :
          /\ run.scored[i].relevance_score = 0
          /\ run.scored[i].channel_id \in run.whitelisted_channel_ids
          /\ run.adjusted[i].engagement_score < run.deduplicated[i].engagement_score
          /\ run.boosted[i].engagement_score > run.adjusted[i].engagement_score

\* the two orders of the ranking stages on one scored candidate
RelevanceThenTrust(video, whitelisted) ==
    TrustBoost(RelevanceAdjust(video), whitelisted).engagement_score

TrustThenRelevance(video, whitelisted) ==
    RelevanceAdjust(TrustBoost(video, whitelisted)).engagement_score

(* C3: among the candidates of an active whitelisted channel there is one  *)
(* with relevance_score 0 for which boosting before the relevance          *)
(* adjustment gives another final score than the implemented order.        *)
OrderSensitive ==
    LET whitelisted == { channel_whitelist[r].channel_id :
                           r \in { x \in 1..Len(channel_whitelist) :
                                     channel_whitelist[x].status = "active" } }
    IN  \E topic_id \in Topics, views \in 0..MaxViews :
            LET video == AttachRelevance(topic_id,
                             Candidate(Hit("a", "UC1", <<"m">>, <<>>, views, 0)))
            IN  /\ video.relevance_score = 0
                /\ video.channel_id \in whitelisted
                /\ TrustThenRelevance(video, whitelisted)
                     # RelevanceThenTrust(video, whitelisted)

\* a run ranked such a candidate: the other order would have given it
\* another score than the one it got
OrderSensitiveWitness ==
    /\ FreshRun
    /\ \E i \in 1..Len(run.scored) :
          /\ run.scored[i].relevance_score = 0
          /\ run.scored[i].channel_id \in run.whitelisted_channel_ids
          /\ run.boosted[i].engagement_score
               = RelevanceThenTrust(run.scored[i], run.whitelisted_channel_ids)
          /\ run.boosted[i].engagement_score
               # TrustThenRelevance(run.scored[i], run.whitelisted_channel_ids)

HasRelevance(video) == "relevance_score" \in DOMAIN video

(* C4: no video of the payload returned by get_videos, and no video of a   *)
(* payload stored in the cache, carries a relevance_score field.           *)
FieldHygiene ==
    /\ (lastOp.op = "get_videos" /\ lastOp.raised = "") =>
          \A i \in 1..Len(lastOp.ret.videos) : ~HasRelevance(lastOp.ret.videos[i])
    /\ \A key \in DOMAIN CACHE :
          \A i \in 1..Len(CACHE[key].value.videos) :
              ~HasRelevance(CACHE[key].value.videos[i])

\* a fresh run scored its candidates and returned and cached some of them
FieldHygieneWitness ==
    /\ FreshRun
    /\ Len(lastOp.ret.videos) > 0
    /\ \A i \in 1..Len(run.boosted) : HasRelevance(run.boosted[i])
    /\ lastOp.key \in DOMAIN CACHE
    /\ CACHE[lastOp.key].value.videos = lastOp.ret.videos

(* C5: a get_cache(key) made exactly 7 days and 1 second after the latest  *)
(* set_cache on that key returns None.                                     *)
CacheTTL ==
    ( /\ lastOp.op = "get_cache"
      /\ lastOp.key \in DOMAIN lastSetAt
      /\ lastOp.at = lastSetAt[lastOp.key] + TTL_SECONDS + 1 )
    => lastOp.ret = None

\* such a get was made, on an entry stored later than the start of the clock
CacheTTLWitness ==
    /\ lastOp.op = "get_cache"
    /\ lastOp.key \in DOMAIN lastSetAt
    /\ lastSetAt[lastOp.key] > 0
    /\ lastOp.at = lastSetAt[lastOp.key] + TTL_SECONDS + 1
    /\ lastOp.key \notin DOMAIN CACHE

(* C6: a get_cache on a key whose entry is unexpired returns the stored    *)
(* value and leaves the cache unchanged; when it directly follows a        *)
(* get_cache on that key that returned a payload, it returns the same      *)
(* payload.                                                                *)
GetIdempotent ==
    [][ \A key \in Keys :
          ( /\ lastOp'.op = "get_cache"
            /\ lastOp'.key = key
            /\ key \in DOMAIN CACHE
            /\ now' <= CACHE[key].expires_at )
          => /\ CACHE' = CACHE
             /\ lastOp'.ret = Some(CACHE[key].value)
             /\ ( /\ lastOp.op = "get_cache"
                  /\ lastOp.key = key
                  /\ lastOp.ret # None )
                => lastOp'.ret = lastOp.ret ]_vars

\* a get_cache that directly followed a get_cache on the same key, later than
\* the set, and returned the payload
GetIdempotentWitness ==
    /\ lastOp.op = "get_cache"
    /\ lastOp.repeated
    /\ lastOp.ret # None
    /\ lastOp.at > lastSetAt[lastOp.key]
    /\ lastOp.ret = Some(CACHE[lastOp.key].value)

(* C7: the relevance adjustment sets engagement_score to                   *)
(* trunc(base * (1 + relevance_score)) when relevance_score > 0 (twice the *)
(* base for 1.0, trunc of one and a half times the base for 0.5) and to    *)
(* trunc(base * 0.3) when it is 0; it removes no candidate and changes no  *)
(* other field.                                                            *)
RelevanceAdjustment ==
    FreshRun =>
        /\ Len(run.adjusted) = Len(run.scored)
        /\ \A i \in 1..Len(run.scored) :
              LET base  == run.scored[i].engagement_score
                  score == run.adjusted[i].engagement_score
              IN  /\ run.adjusted[i] = [run.scored[i] EXCEPT !.engagement_score = score]
                  /\ run.scored[i].relevance_score \in {0, 5, 10}
                  /\ run.scored[i].relevance_score = 10 => score = 2 * base
                  /\ run.scored[i].relevance_score = 5 =>
                        2 * score <= 3 * base /\ 3 * base < 2 * score + 2
                  /\ run.scored[i].relevance_score = 0 =>
                        10 * score <= 3 * base /\ 3 * base < 10 * score + 10

\* a candidate matched in its description only, whose product was truncated
RelevanceAdjustmentWitness ==
    /\ FreshRun
    /\ \E i \in 1..Len(run.scored) :
          /\ run.scored[i].relevance_score = 5
          /\ 2 * run.adjusted[i].engagement_score
               < 3 * run.scored[i].engagement_score

(* C8: the trust boost sets the relevance-adjusted engagement_score of a   *)
(* candidate to trunc(engagement_score * 1.25) when its channel_id is the  *)
(* channel_id of a whitelist row with status "active", and leaves the      *)
(* score of every other candidate unchanged.                               *)
TrustSourceBoost ==
    FreshRun =>
        /\ Len(run.boosted) = Len(run.adjusted)
        /\ \A i \in 1..Len(run.adjusted) :
              LET before == run.adjusted[i].engagement_score
                  after  == run.boosted[i].engagement_score
                  active == \E r \in 1..Len(channel_whitelist) :
                                /\ channel_whitelist[r].status = "active"
                                /\ channel_whitelist[r].channel_id
                                     = run.adjusted[i].channel_id
              IN  /\ run.boosted[i] = [run.adjusted[i] EXCEPT !.engagement_score = after]
                  /\ active => 4 * after <= 5 * before /\ 5 * before < 4 * after + 4
                  /\ ~active => after = before

\* a run that raised the score of a whitelisted candidate and left the equal
\* score of a candidate of an inactive channel as it was
TrustSourceBoostWitness ==
    /\ FreshRun
    /\ \E i, j \in 1..Len(run.adjusted) :
          /\ run.adjusted[i].channel_id \in run.whitelisted_channel_ids
          /\ run.adjusted[j].channel_id \notin run.whitelisted_channel_ids
          /\ \E r \in 1..Len(channel_whitelist) :
                /\ channel_whitelist[r].channel_id = run.adjusted[j].channel_id
                /\ channel_whitelist[r].status = "inactive"
          /\ run.adjusted[i].engagement_score = run.adjusted[j].engagement_score
          /\ run.boosted[i].engagement_score > run.adjusted[i].engagement_score
          /\ run.boosted[j].engagement_score = run.adjusted[j].engagement_score

\* the position at which the external id of `video` first occurs in the
\* concatenated candidate list
FirstSeen(all_videos, video) ==
    CHOOSE i \in Occurrences(all_videos, IdOf(video)) :
        \A j \in Occurrences(all_videos, IdOf(video)) : i <= j

(* C9: the returned videos are in non-increasing order of final            *)
(* engagement_score, and videos of equal score are in the order in which   *)
(* their external ids first occurred in the concatenated candidate list.   *)
FinalOrdering ==
    FreshRun =>
        \A i, j \in 1..Len(lastOp.ret.videos) :
            i < j =>
                LET vi == lastOp.ret.videos[i]
                    vj == lastOp.ret.videos[j]
                IN  /\ vi.engagement_score >= vj.engagement_score
                    /\ vi.engagement_score = vj.engagement_score =>
                          FirstSeen(run.all_videos, vi) < FirstSeen(run.all_videos, vj)

\* two returned videos of equal score, the first of which is a later
\* duplicate that replaced the first-seen entry of its id
FinalOrderingWitness ==
    /\ FreshRun
    /\ Len(lastOp.ret.videos) = 2
    /\ lastOp.ret.videos[1].engagement_score = lastOp.ret.videos[2].engagement_score
    /\ lastOp.ret.videos[1].engagement_score > 0
    /\ run.all_videos[FirstSeen(run.all_videos, lastOp.ret.videos[1])].channel_id
         # lastOp.ret.videos[1].channel_id

(* C10: every response of get_videos(topic_id, limit), on a cache miss and *)
(* on a cache hit alike, contains at most `limit` videos.                  *)
LimitRespected ==
    (lastOp.op = "get_videos" /\ lastOp.raised = "") =>
        Len(lastOp.ret.videos) <= lastOp.limit

(***************************************************************************)
(* C11  The worked example                                                 *)
(***************************************************************************)
\* the positions of the response that hold the video id of the duplicate
ExampleDuplicateAt ==
    { i \in 1..Len(lastOp.ret.videos) : IdOf(lastOp.ret.videos[i]) = <<ExampleIds[4]>> }

\* C11: in the worked example (topic "os", hits of engagement 100, 50, 10 and
\* 80, 40, 5 from the two whitelisted channels, a global hit of engagement 95
\* from a channel off the whitelist whose title holds the topic and whose
\* video id is that of the hit of engagement 80), deduplication keeps the
\* entry of engagement 95 and drops the one of 80, the final engagement_score
\* of that entry is 190, and it stands in the response ahead of every entry of
\* a whitelisted channel whose final score is below 190.
ExampleRanking ==
    (FreshRun /\ source \in ExampleSources) =>
        /\ \E i \in 1..Len(run.deduplicated) :
              /\ IdOf(run.deduplicated[i]) = <<ExampleIds[4]>>
              /\ run.deduplicated[i].engagement_score = 95
              /\ run.deduplicated[i].channel_id = "UC3"
              /\ \A j \in 1..Len(run.deduplicated) :
                    IdOf(run.deduplicated[j]) = <<ExampleIds[4]>> => j = i
        /\ Len(lastOp.ret.videos) = 6
        /\ \E i \in ExampleDuplicateAt :
              /\ ExampleDuplicateAt = {i}
              /\ lastOp.ret.videos[i].engagement_score = 190
              /\ lastOp.ret.videos[i].channel_id = "UC3"
              /\ \A j \in 1..Len(lastOp.ret.videos) :
                    ( /\ lastOp.ret.videos[j].channel_id \in {"UC1", "UC2"}
                      /\ lastOp.ret.videos[j].engagement_score < 190 ) => i < j

\* the example has run, the hit of engagement 100 matched by its title (250)
\* stands first, the duplicate second and the other entries below 190 follow
ExampleRankingWitness ==
    /\ FreshRun
    /\ source \in ExampleSources
    /\ lastOp.ret.videos[1].engagement_score = 250
    /\ ExampleDuplicateAt = {2}
    /\ \A j \in 3..6 : lastOp.ret.videos[j].engagement_score < 190

(***************************************************************************)
(* C12  The relevance scorer                                               *)
(***************************************************************************)
\* the lower-cased topic stands somewhere in the lower-cased, non-empty text
Matches(topic_id, text) ==
    /\ text # <<>>
    /\ \E start \in 1..(Len(text) + 1) :
          /\ start + Len(topic_id) - 1 <= Len(text)
          /\ SubSeq(Lower(text), start, start + Len(topic_id) - 1) = Lower(topic_id)

CacheGet ==
    [][ ( /\ now' = now
          /\ lastOp'.op = "get_cache"
          /\ lastOp'.at = now )
        => LET key == lastOp'.key
           IN  /\ key \notin DOMAIN lastSetAt => key \notin DOMAIN CACHE
               /\ key \notin DOMAIN CACHE =>
                      /\ lastOp'.ret = None
                      /\ CACHE' = CACHE
               /\ (key \in DOMAIN CACHE /\ now > CACHE[key].expires_at) =>
                      /\ lastOp'.ret = None
                      /\ DOMAIN CACHE' = DOMAIN CACHE \ {key}
                      /\ \A k \in DOMAIN CACHE' : CACHE'[k] = CACHE[k]
               /\ (key \in DOMAIN CACHE /\ now <= CACHE[key].expires_at) =>
                      /\ lastOp'.ret = Some(CACHE[key].value)
                      /\ CACHE' = CACHE ]_vars

\* a get_cache made at the very second expires_at returned the stored value
CacheGetWitness ==
    /\ lastOp.op = "get_cache"
    /\ lastOp.prior = "present"
    /\ lastOp.key \in DOMAIN CACHE
    /\ lastOp.at = CACHE[lastOp.key].expires_at
    /\ lastOp.ret = Some(CACHE[lastOp.key].value)

(***************************************************************************)
(* C14  set_cache                                                          *)
(***************************************************************************)
\* C14: a call set_cache(key, value) replaces whatever the key held (an
\* unexpired entry, an expired one or none) by the value given, with
\* expires_at equal to the time of the call plus exactly 7 days, and leaves
\* the other entries alone; so every entry expires 7 days after the latest set
\* on its key, a second set restarting the window.
CacheSet ==
    [][ /\ ( /\ now' = now
              /\ lastOp'.op = "set_cache"
              /\ lastOp'.at = now )
            => LET key == lastOp'.key
               IN  /\ lastOp'.prior = EntryStatus(CACHE, key, now)
                   /\ DOMAIN CACHE' = DOMAIN CACHE \cup {key}
                   /\ CACHE'[key] = [value |-> lastOp'.arg[1],
                                     expires_at |-> now + 7 * 24 * 60 * 60]
                   /\ \A k \in DOMAIN CACHE \ {key} : CACHE'[k] = CACHE[k]
        /\ \A k \in DOMAIN CACHE' :
              /\ k \in DOMAIN lastSetAt'
              /\ CACHE'[k].expires_at = lastSetAt'[k] + 7 * 24 * 60 * 60 ]_vars

\* a set_cache replaced an entry that had expired by another value and
\* restarted its window
CacheSetWitness ==
    /\ lastOp.op = "set_cache"
    /\ lastOp.prior = "expired"
    /\ lastOp.at > TTL_SECONDS
    /\ CACHE[lastOp.key] = [value |-> lastOp.arg[1],
                            expires_at |-> lastOp.at + TTL_SECONDS]

(***************************************************************************)
(* C15  Cache-hit tagging                                                  *)
(***************************************************************************)
\* C15: once a get_videos request for a topic has completed, every later
\* get_videos request for that topic made no later than 7 days after it
\* returns cached = TRUE together with the stored payload, leaves the cache as
\* it is and runs no whitelist query and no fetch; a response is built by a
\* fresh fetch+rank run exactly when it carries cached = FALSE, and then it
\* carries the payload of that run.
CacheHitTagging ==
    [][ ( /\ now' = now
          /\ lastOp'.op = "get_videos"
          /\ lastOp'.at = now
          /\ lastOp'.raised = "" )
        => LET key == lastOp'.key
           IN  /\ ( /\ key \in DOMAIN lastSetAt
                     /\ now <= lastSetAt[key] + TTL_SECONDS )
                   => /\ lastOp'.ret.cached = TRUE
                      /\ key \in DOMAIN CACHE
                      /\ lastOp'.ret.topic_id = CACHE[key].value.topic_id
                      /\ lastOp'.ret.total_channels = CACHE[key].value.total_channels
                      /\ lastOp'.ret.videos_found = CACHE[key].value.videos_found
                      /\ lastOp'.ret.videos = CACHE[key].value.videos
                      /\ CACHE' = CACHE
                      /\ ~run'.ran
               /\ run'.ran <=> (lastOp'.ret.cached = FALSE)
               /\ run'.ran =>
                      /\ lastOp'.ret.videos = run'.payload.videos
                      /\ lastOp'.ret.topic_id = run'.payload.topic_id ]_vars

\* a request made on the last second of the window of a payload stored after
\* the start of the clock was answered from the cache
CacheHitTaggingWitness ==
    /\ lastOp.op = "get_videos"
    /\ lastOp.raised = ""
    /\ lastOp.ret.cached = TRUE
    /\ ~run.ran
    /\ lastSetAt[lastOp.key] > 0
    /\ lastOp.at = lastSetAt[lastOp.key] + TTL_SECONDS

(***************************************************************************)
(* C16  Exclusion in the global fetch                                      *)
(***************************************************************************)
\* the rows of the whitelist table that are active
ActiveIds ==
    { channel_whitelist[i].channel_id :
        i \in { j \in 1..Len(channel_whitelist) :
                  channel_whitelist[j].status = "active" } }

\* C16: whatever set of channel ids is given as exclude_channel_ids, no
\* candidate returned by fetch_videos_from_global_search belongs to a channel
\* of that set; and in a fresh run of get_videos no candidate of the global
\* fetch belongs to an active channel of the whitelist.
GlobalExclusion ==
    /\ \A exclude_channel_ids \in SUBSET ChannelIds :
          LET videos == fetch_videos_from_global_search(
                            source, GLOBAL_MAX_RESULTS, exclude_channel_ids)
          IN  \A i \in 1..Len(videos) :
                  videos[i].channel_id \notin exclude_channel_ids
    /\ FreshRun =>
          \A i \in 1..Len(run.global_videos) :
              run.global_videos[i].channel_id \notin ActiveIds

\* the global scope answered with a hit of an active whitelisted channel and
\* the fresh run took no candidate from it
GlobalExclusionWitness ==
    /\ FreshRun
    /\ Len(source.global) = 1
    /\ source.global[1].channelId \in ActiveIds
    /\ run.global_videos = <<>>

(***************************************************************************)
(* C17  Failing fetches                                                    *)
(***************************************************************************)
\* the scopes a fresh run asks: the active channels and the global scope
AskedScopes == ActiveIds \cup {"global"}

\* the video ids of the hits of the asked scopes whose request did not fail,
\* the hits of active channels in the global scope left out
GatheredIds ==
    UNION { { <<source.byChannel[c][i].videoId>> :
                i \in 1..Len(source.byChannel[c]) } :
              c \in ActiveIds \ source.failing }
    \cup
    { <<source.global[i].videoId>> :
        i \in { j \in 1..Len(source.global) :
                  /\ "global" \notin source.failing
                  /\ source.global[j].channelId \notin ActiveIds } }

\* C17: when the request of one whitelisted channel or of the global scope
\* fails, get_videos does not fail: it answers with the ranking of the
\* candidates gathered from the scopes whose request succeeded.
DegradedButAvailable ==
    ( /\ lastOp.op = "get_videos"
      /\ source.failing \cap AskedScopes # {} )
    => /\ lastOp.raised = ""
       /\ { IdOf(lastOp.ret.videos[i]) : i \in 1..Len(lastOp.ret.videos) }
              = GatheredIds

(***************************************************************************)
(* C18  Malformed hits                                                     *)
(***************************************************************************)
\* the hits of the video source, of every scope
AllHits ==
    UNION { { source.byChannel[c][i] : i \in 1..Len(source.byChannel[c]) } :
              c \in ChannelIds }
    \cup { source.global[i] : i \in 1..Len(source.global) }

\* the text of a field of a hit, empty when the hit lacks the field
TextOf(hit, field) == IF field \in DOMAIN hit THEN hit[field] ELSE <<>>

\* the number of a field of a hit, 0 when the hit lacks the field
NumberOf(hit, field) == IF field \in DOMAIN hit THEN hit[field] ELSE 0

\* C18: a hit that lacks a field never makes get_videos raise, and the
\* candidate built from it carries 0 for a number and the empty text for a
\* text the hit lacks.
MalformedTolerated ==
    lastOp.op = "get_videos" =>
        /\ lastOp.raised = ""
        /\ FreshRun =>
              \A i \in 1..Len(run.all_videos) :
                  \E hit \in AllHits :
                      /\ run.all_videos[i].title = TextOf(hit, "title")
                      /\ run.all_videos[i].description = TextOf(hit, "description")
                      /\ run.all_videos[i].views = NumberOf(hit, "viewCount")
                      /\ run.all_videos[i].comments = NumberOf(hit, "commentCount")
                      /\ run.all_videos[i].engagement_score =
                            NumberOf(hit, "viewCount") + NumberOf(hit, "commentCount")

RaceBenign ==
    /\ \A th \in Threads : threads[th].raised = ""
    /\ \A key \in DOMAIN CACHE :
          /\ DOMAIN CACHE[key] = {"value", "expires_at"}
          /\ CACHE[key].value \in OtherValues
          /\ key \in DOMAIN lastSetAt
          /\ CACHE[key].expires_at = lastSetAt[key] + TTL_SECONDS

(***************************************************************************)
(* C21  Idempotence of the ingestion                                       *)
(***************************************************************************)
\* C21: after a second run of ingest_questions on the list of questions of
\* the first run, with no insert turned down by the database, the questions
\* table and the question_appearances table are as the first run left them.
IngestIdempotent ==
    (ingest.runs >= 2 /\ ~ingest.rejected) =>
        /\ questions_table = ingest.first_questions_table
        /\ question_appearances = ingest.first_question_appearances

(***************************************************************************)
(* C22  The survival study plan                                            *)
(***************************************************************************)
\* the hours of a question, in hundredths: 10 marks 0.75, 5 marks 0.4,
\* 2 marks 0.15
HundredthsOf(marks) ==
    CASE marks = 10 -> 75
      [] marks = 5 -> 40
      [] marks = 2 -> 15

RECURSIVE SumHundredths(_, _)
SumHundredths(questions, n) ==
    IF n = 0
    THEN 0
    ELSE SumHundredths(questions, n - 1) + HundredthsOf(questions[n].marks)

\* the ids of the must_study rows of timed marks, by score descending
TimedMustStudy ==
    LET ids == { i \in 1..Len(question_predictions) :
                   /\ question_predictions[i].study_priority = "must_study"
                   /\ question_predictions[i].marks \in {10, 5, 2} }
    IN  [rank \in 1..Cardinality(ids) |->
            CHOOSE i \in ids :
                Cardinality({ j \in ids :
                    question_predictions[j].prediction_score
                        > question_predictions[i].prediction_score }) = rank - 1]

\* C22: a study plan holds must_study questions of 10, 5 or 2 marks only, in
\* prediction_score-descending order; they are the first questions of that
\* order, up to the first one whose hours (0.75, 0.4, 0.15) no longer fit into
\* what is left of hours_available: the sum of the hours is at most
\* hours_available, the next question of the order, if any, does not fit, and
\* rows of other marks are passed over.
StudyPlanSelection ==
    study_plan.status = 200 =>
        LET n == Len(study_plan.questions)
        IN  /\ n <= Len(TimedMustStudy)
            /\ \A i \in 1..n :
                  study_plan.questions[i].question_id = TimedMustStudy[i]
            /\ SumHundredths(study_plan.questions, n) <= study_plan.hours_available
            /\ n < Len(TimedMustStudy) =>
                  SumHundredths(study_plan.questions, n)
                    + HundredthsOf(question_predictions[TimedMustStudy[n + 1]].marks)
                  > study_plan.hours_available

(***************************************************************************)
(* C23  The cache is written only after success                            *)
(***************************************************************************)
\* the step is a request get_videos
IsGetVideosStep ==
    /\ now' = now
    /\ lastOp'.op = "get_videos"
    /\ lastOp'.at = now
    /\ source' = source

\* C23 as stated: a request in which a fetch or a step of the pipeline raises
\* leaves the cache exactly as it was before the request.
FailureLeavesCache ==
    [][ (IsGetVideosStep /\ lastOp'.raised # "") => CACHE' = CACHE ]_vars

\* C23, amended: get_videos stores a payload only on a cache miss and only
\* after the fetches and the ranking have completed, and then it stores the
\* payload of that run; a request in which a fetch raises stores nothing and
\* leaves every entry as it was, except that the lookup made before the
\* fetches has evicted the entry of the key when that entry had expired.
CacheWrittenAfterSuccess ==
    [][ IsGetVideosStep =>
          LET key == lastOp'.key
          IN  /\ lastOp'.raised # "" =>
                    /\ lastSetAt' = lastSetAt
                    /\ \A k \in DOMAIN CACHE' :
                          k \in DOMAIN CACHE /\ CACHE'[k] = CACHE[k]
                    /\ \A k \in DOMAIN CACHE \ DOMAIN CACHE' :
                          k = key /\ now > CACHE[k].expires_at
              /\ lastSetAt' # lastSetAt =>
                    /\ lastOp'.raised = ""
                    /\ lastOp'.prior # "present"
                    /\ run'.ran
              /\ (lastOp'.raised = "" /\ run'.ran) =>
                    /\ lastOp'.prior # "present"
                    /\ key \in DOMAIN CACHE'
                    /\ CACHE'[key].value = run'.payload
                    /\ CACHE'[key].expires_at = now + TTL_SECONDS
              /\ (lastOp'.raised = "" /\ ~run'.ran) => CACHE' = CACHE ]_vars

\* a request found its entry expired, evicted it, and then failed in a fetch
CacheWrittenAfterSuccessWitness ==
    /\ lastOp.op = "get_videos"
    /\ lastOp.raised = "HTTPError"
    /\ lastOp.prior = "expired"
    /\ lastOp.key \notin DOMAIN CACHE
    /\ lastOp.key \in DOMAIN lastSetAt

(***************************************************************************)
(* C24  The order of the stages                                            *)
(***************************************************************************)
\* the engagement_score the fetch gave the candidate
BaseScore(video) == video.views + video.comments

\* one relevance adjustment of the score `base` under relevance `tenths`
AdjustedOnce(base, tenths) ==
    IF tenths = 0
    THEN (3 * base) \div 10
    ELSE IF tenths = 5 THEN (3 * base) \div 2 ELSE 2 * base

\* C24: in a fresh run every candidate enters deduplication with the
\* engagement_score of the fetch (views + comments) and deduplication keeps
\* candidates as they are; the relevance_score is attached while every
\* engagement_score is still that of the fetch; then every candidate gets the
\* relevance adjustment exactly once, then the trust boost at most once, and
\* its relevance_score stays the one attached.
StageOrder ==
    FreshRun =>
        /\ \A i \in 1..Len(run.all_videos) :
              run.all_videos[i].engagement_score = BaseScore(run.all_videos[i])
        /\ \A i \in 1..Len(run.deduplicated) :
              \E j \in 1..Len(run.all_videos) :
                  run.deduplicated[i] = run.all_videos[j]
        /\ Len(run.scored) = Len(run.deduplicated)
        /\ Len(run.adjusted) = Len(run.deduplicated)
        /\ Len(run.boosted) = Len(run.deduplicated)
        /\ \A i \in 1..Len(run.deduplicated) :
              LET base == BaseScore(run.deduplicated[i])
                  once == AdjustedOnce(base, run.scored[i].relevance_score)
              IN  /\ run.scored[i].engagement_score = base
                  /\ run.adjusted[i].relevance_score = run.scored[i].relevance_score
                  /\ run.adjusted[i].engagement_score = once
                  /\ run.boosted[i].relevance_score = run.scored[i].relevance_score
                  /\ run.boosted[i].engagement_score \in {once, (5 * once) \div 4}
                  /\ run.boosted[i].youtube_url = run.deduplicated[i].youtube_url

\* a run that merged two candidates of one id and whose surviving candidate
\* was adjusted and then boosted, each with a visible effect
StageOrderWitness ==
    /\ FreshRun
    /\ Len(run.deduplicated) < Len(run.all_videos)
    /\ \E i \in 1..Len(run.boosted) :
          /\ run.adjusted[i].engagement_score > run.scored[i].engagement_score
          /\ run.boosted[i].engagement_score > run.adjusted[i].engagement_score

(***************************************************************************)
(* C25  The fetch plan of a cache miss                                     *)
(***************************************************************************)
\* the candidates the first n logged calls return, one after the other
RECURSIVE FetchResults(_, _, _)
FetchResults(src, calls, n) ==
    IF n = 0
    THEN <<>>
    ELSE FetchResults(src, calls, n - 1)
         \o (IF calls[n].fn = "fetch_videos_from_channel"
             THEN fetch_videos_from_channel(src, calls[n].channel_id,
                                            calls[n].max_results)
             ELSE fetch_videos_from_global_search(src, calls[n].max_results,
                                                  calls[n].exclude_channel_ids))

\* the scope of the source a logged call asks
ScopeOf(call) ==
    IF call.fn = "fetch_videos_from_channel" THEN call.channel_id ELSE "global"

\* C25: a get_videos that misses the cache asks the source once per active
\* whitelisted channel, in whitelist order and with max_results 3, and then
\* once globally with max_results 17; no call is made twice, and a call that
\* raises is the last one of the request (it is not retried).  When every call
\* returns, the candidate pool is the channel results in whitelist order
\* followed by the global results.  A cache hit asks nothing.
FetchPlan ==
    LET active == ActiveChannels(channel_whitelist)
    IN  lastOp.op = "get_videos" =>
            /\ Len(run.fetches) <= Len(active) + 1
            /\ \A n \in 1..Len(run.fetches) :
                  /\ cache_key(run.fetches[n].query) = lastOp.key
                  /\ n <= Len(active) =>
                        /\ run.fetches[n].fn = "fetch_videos_from_channel"
                        /\ run.fetches[n].channel_id = active[n].channel_id
                        /\ run.fetches[n].max_results = 3
                  /\ n = Len(active) + 1 =>
                        /\ run.fetches[n].fn = "fetch_videos_from_global_search"
                        /\ run.fetches[n].max_results = 17
                  /\ n < Len(run.fetches) =>
                        ScopeOf(run.fetches[n]) \notin source.failing
            /\ run.ran =>
                  /\ Len(run.fetches) = Len(active) + 1
                  /\ run.all_videos =
                        FetchResults(source, run.fetches, Len(run.fetches))
            /\ (~run.ran /\ run.fetches # <<>>) =>
                  /\ ScopeOf(run.fetches[Len(run.fetches)]) \in source.failing
                  /\ lastOp.raised = "HTTPError"
            /\ (lastOp.raised = "" /\ lastOp.ret.cached) => run.fetches = <<>>

\* a miss with two active channels: three calls, each with candidates
FetchPlanWitness ==
    /\ lastOp.op = "get_videos"
    /\ run.ran
    /\ Len(run.fetches) = 3
    /\ Len(run.all_videos) = 3
    /\ run.all_videos[1].channel_id = "UC1"
    /\ run.all_videos[2].channel_id = "UC2"
    /\ run.global_videos # <<>>

(***************************************************************************)
(* C26  extract_video_id                                                   *)
(***************************************************************************)
\* the URL holds the marker "v="
HasMarker(youtube_url) == \E i \in 1..Len(youtube_url) : youtube_url[i] = "v="

\* C26: of a URL that holds the marker "v=" the extracted id is the text
\* after the (last) marker, so the id holds no marker; of a URL without the
\* marker the id is the whole URL; no exception is raised; and step 5 merges
\* two candidates into one exactly when their extracted ids are equal.
ExtractVideoId ==
    lastOp.op = "extract_video_id" =>
        /\ lastOp.raised = ""
        /\ \A k \in 1..2 :
              /\ ~HasMarker(lastOp.arg[k]) => lastOp.ret[k] = lastOp.arg[k]
              /\ HasMarker(lastOp.arg[k]) =>
                    /\ ~HasMarker(lastOp.ret[k])
                    /\ lastOp.arg[k] =
                          SubSeq(lastOp.arg[k], 1,
                                 Len(lastOp.arg[k]) - Len(lastOp.ret[k]) - 1)
                          \o <<"v=">> \o lastOp.ret[k]
        /\ (Len(run.deduplicated) = 1) <=> (lastOp.ret[1] = lastOp.ret[2])
        /\ Len(run.deduplicated) \in {1, 2}

\* two different URLs, one without the marker, one with two markers, that
\* have the same id and were merged
ExtractVideoIdWitness ==
    /\ lastOp.op = "extract_video_id"
    /\ ~HasMarker(lastOp.arg[1])
    /\ lastOp.arg[1] # <<>>
    /\ lastOp.arg[2] = <<"v=", "v=">> \o lastOp.arg[1]
    /\ Len(run.deduplicated) = 1

(***************************************************************************)
(* C27  Two-phase parsing                                                  *)
(***************************************************************************)
\* the LLM call gave nothing usable: it raised, or its text is missing, blank
\* or holds no JSON object
Unusable(response) ==
    \/ response.raises
    \/ response.text = None
    \/ \A i \in 1..Len(response.text[1]) : response.text[1][i].kind = "space"
    \/ ~ \E i, j \in 1..Len(response.text[1]) :
            /\ i < j
            /\ response.text[1][i].kind = "{"
            /\ response.text[1][j].kind = "}"
            /\ \A k \in (i + 1)..(j - 1) :
                  response.text[1][k].kind \in {"pair", "space"}
            /\ \A k \in 1..(i - 1) : response.text[1][k].kind # "{"
            /\ \A k \in (j + 1)..Len(response.text[1]) :
                  response.text[1][k].kind # "}"

\* C27: when phase 1 finds a block, parse_pyq_text raises nothing and returns
\* one result per block, in block order (every block has a non-empty
\* raw_text); the result of a block has the marks phase 1 inferred for it, 2, 5
\* or 10, whatever the LLM answered; and when the LLM call of the block
\* raised or answered nothing that holds a JSON object, the result has
\* question_text = raw_text, topic_guess = "", module_number = None and
\* confidence = 0.6.
TwoPhaseParsing ==
    (parsed.called /\ parsed.blocks # <<>>) =>
        /\ parsed.raised = ""
        /\ Len(parsed.ret) = Len(parsed.blocks)
        /\ parsed.calls = Len(parsed.blocks)
        /\ \A i \in 1..Len(parsed.blocks) :
              /\ parsed.blocks[i].raw_text # <<>>
              /\ parsed.ret[i].q_number = parsed.blocks[i].q_number
              /\ parsed.ret[i].sub_part = parsed.blocks[i].sub_part
              /\ parsed.ret[i].marks = parsed.blocks[i].marks
              /\ parsed.ret[i].marks \in {2, 5, 10}
              /\ Unusable(parsed.responses[i]) =>
                    /\ parsed.ret[i].question_text = parsed.blocks[i].raw_text
                    /\ parsed.ret[i].topic_guess = <<>>
                    /\ parsed.ret[i].module_number = None
                    /\ parsed.ret[i].confidence = Some(60)

\* a paper with two blocks of different marks: the LLM failed on the first
\* and answered the second with an object that carries its own marks
TwoPhaseParsingWitness ==
    /\ parsed.called
    /\ Len(parsed.blocks) = 2
    /\ parsed.responses[1].raises
    /\ ~Unusable(parsed.responses[2])
    /\ "marks" \in DOMAIN extract_json_object(parsed.responses[2].text[1])
    /\ parsed.ret[1].marks # parsed.ret[2].marks
    /\ parsed.ret[1].question_text = parsed.blocks[1].raw_text
    /\ parsed.ret[2].question_text # parsed.blocks[2].raw_text

(***************************************************************************)
(* C28  The whitelist does not rescue irrelevant content                   *)
(***************************************************************************)
\* the position of the candidate with this URL in the response, 0 if absent
PositionOf(videos, youtube_url) ==
    IF \E k \in 1..Len(videos) : videos[k].youtube_url = youtube_url
    THEN CHOOSE k \in 1..Len(videos) : videos[k].youtube_url = youtube_url
    ELSE 0

\* candidate i is whitelisted and irrelevant, candidate j is not whitelisted
\* and relevant, and both entered the pipeline with the same score, at least 1
RescuePair(i, j) ==
    /\ run.scored[i].channel_id \in run.whitelisted_channel_ids
    /\ run.scored[i].relevance_score = 0
    /\ run.scored[j].channel_id \notin run.whitelisted_channel_ids
    /\ run.scored[j].relevance_score > 0
    /\ BaseScore(run.scored[i]) = BaseScore(run.scored[j])
    /\ BaseScore(run.scored[i]) >= 1

\* C28: of a whitelisted candidate of relevance 0 and a candidate off the
\* whitelist of relevance 0.5 or 1.0 that enter the pipeline with the same
\* engagement_score b >= 1, the whitelisted one ends with the strictly lower
\* engagement_score; in the response it never stands ahead of the other one,
\* and it is never there without the other one.
WhitelistNoRescue ==
    FreshRun =>
        \A i, j \in 1..Len(run.boosted) :
            RescuePair(i, j) =>
                /\ run.boosted[i].engagement_score < run.boosted[j].engagement_score
                /\ PositionOf(lastOp.ret.videos, run.boosted[i].youtube_url) # 0 =>
                      /\ PositionOf(lastOp.ret.videos, run.boosted[j].youtube_url) # 0
                      /\ PositionOf(lastOp.ret.videos, run.boosted[j].youtube_url)
                           < PositionOf(lastOp.ret.videos, run.boosted[i].youtube_url)

\* such a pair, the relevant candidate matched by its description only, the
\* whitelisted one boosted to a positive score, both in the response
WhitelistNoRescueWitness ==
    /\ FreshRun
    /\ \E i, j \in 1..Len(run.boosted) :
          /\ RescuePair(i, j)
          /\ i < j
          /\ run.scored[j].relevance_score = 5
          /\ run.boosted[i].engagement_score > run.adjusted[i].engagement_score
          /\ PositionOf(lastOp.ret.videos, run.boosted[i].youtube_url) = 2

(***************************************************************************)
(* C29  Eviction under concurrency                                         *)
(***************************************************************************)
\* C29: under every interleaving of the steps of get_cache and set_cache
\* calls on one key, an entry that a step removes from the cache is expired
\* at that moment: a get_cache that read an expired entry does not delete a
\* fresh entry that a set_cache of another thread stored in between.
EvictsOnlyExpired ==
    [][ \A key \in DOMAIN CACHE :
          key \notin DOMAIN CACHE' => now > CACHE[key].expires_at ]_vars

(***************************************************************************)
(* C30  The frame of the cache calls                                       *)
(***************************************************************************)
\* the entry of the key differs between the two states of a step
EntryChanged(key) ==
    \/ (key \in DOMAIN CACHE) # (key \in DOMAIN CACHE')
    \/ key \in DOMAIN CACHE /\ key \in DOMAIN CACHE' /\ CACHE[key] # CACHE'[key]

\* C30: a step adds, changes or removes the entry of a key only if it is a
\* cache call on that key (get_cache, set_cache, or the get_videos that makes
\* them); an entry is removed only by a lookup of its own key made when the
\* entry is expired; and the passing of time alone removes nothing, so an
\* expired entry that is not looked up stays stored.
CacheFrame ==
    [][ /\ \A key \in DOMAIN CACHE \cup DOMAIN CACHE' :
              EntryChanged(key) =>
                  /\ lastOp'.key = key
                  /\ lastOp'.at = now
                  /\ lastOp'.op \in {"get_cache", "set_cache", "get_videos"}
                  /\ key \notin DOMAIN CACHE' =>
                        /\ lastOp'.op \in {"get_cache", "get_videos"}
                        /\ now > CACHE[key].expires_at
        /\ now' # now => CACHE' = CACHE ]_vars

\* an expired entry is still stored after a later lookup of another key
\* evicted the expired entry of that key
CacheFrameWitness ==
    /\ lastOp.op = "get_cache"
    /\ lastOp.prior = "expired"
    /\ lastOp.at = now
    /\ lastOp.key \notin DOMAIN CACHE
    /\ \E key \in DOMAIN CACHE :
          /\ key # lastOp.key
          /\ now > CACHE[key].expires_at

====
